---- MODULE Spec2Model ----
(***************************************************************************)
(* pyminidb: the object-graph B+ tree (src/index/simple_bplus_tree.py) and *)
(* the paged storage manager (src/storage/storage_manager.py, page.py).    *)
(*                                                                         *)
(* Two state machines share the module's variables:                        *)
(*   TreeSpec     one SimpleBPlusTree driven by insert/delete/search/      *)
(*                range_search calls;                                      *)
(*   StorageSpec  one StorageManager and its database file driven by       *)
(*                create_database/open/close/read_page/write_page/         *)
(*                allocate_page/_extend_file calls.                        *)
(***************************************************************************)
EXTENDS Integers, Sequences, FiniteSets, TLC

VARIABLES
    \* ---- SimpleBPlusTree ----
    order,          \* self.order
    nodes,          \* the TreeNode objects ever created; a node's identity is its index
    root,           \* self.root (an index into nodes)
    key_to_value,   \* self.key_to_value (dict: serialized key -> last value inserted)
    inserted,       \* history: the set of <<serialized key, value>> pairs passed to insert
    deleted,        \* history: TRUE once delete has been called
    dup_seen,       \* history: TRUE once insert was given a key that had an entry stored
    nops,           \* history: number of calls made so far
    result,         \* the last call: its name, arguments and return value
    \* ---- StorageManager ----
    disk,           \* the file at db_path: whether it exists and its 4096-byte blocks
    file,           \* self.file: TRUE while a handle is held (None otherwise)
    orphan,         \* the unlinked file self.file still refers to, if it does (POSIX unlink)
    header,         \* self.header (DatabaseHeader fields)
    is_open,        \* self.is_open
    alloc_ids,      \* history: the page ids allocate_page returned since the file was opened
    ncalls,         \* history: number of storage calls made so far
    sres,           \* the last storage call: its name, arguments, error and returned page
    \* ---- Page ----
    page,           \* a Page object held in memory (its fields)
    allocs,         \* history: <<offset, size>> of every successful allocate_space
    shadow,         \* history: page offset -> the byte last passed to write_data for it
    pcalls,         \* history: number of Page calls made so far
    pres,           \* the last Page call: its name, arguments and outcome
    \* ---- IndexManager ----
    indexes,        \* self.indexes (dict: index name -> SimpleBPlusTree)
    index_counter,  \* self.index_counter
    dropped,        \* history: the names drop_index has removed with entries in the tree
    icalls,         \* history: number of IndexManager calls made so far
    ires,           \* the last IndexManager call: its name, arguments and outcome
    \* ---- BPlusTree (node-id based) ----
    bp_order,       \* self.config.order
    node_cache,     \* self.node_cache (dict: node id -> BPNode fields)
    root_node_id,   \* self.root_node_id
    next_node_id,   \* self.next_node_id
    bp_inserted,    \* history: serialized key -> the value last inserted for it
    bp_repeated,    \* history: TRUE once insert was given a key a second time
    bp_deleted,     \* history: TRUE once delete has been called
    bcalls,         \* history: number of BPlusTree calls made so far
    bres,           \* the last BPlusTree call: its name, arguments and outcome
    \* ---- QueryExecutor, with its Catalog and its IndexManager ----
    tables,                 \* catalog.tables (dict: table name -> TableSchema)
    catalog_indexes,        \* catalog.indexes (dict: index name -> IndexSchema)
    table_counter,          \* catalog.table_counter
    catalog_index_counter,  \* catalog.index_counter
    index_manager,          \* self.index_manager.indexes (dict: index name -> tree)
    table_data,             \* self._table_data (table name -> list of Row; [] if absent)
    qcalls,                 \* history: number of statements executed so far
    qres                    \* the last statement: its type, table and QueryResult

treeVars == <<order, nodes, root, key_to_value, inserted, deleted, dup_seen, nops, result>>
storVars == <<disk, file, orphan, header, is_open, alloc_ids, ncalls, sres>>
pageVars == <<page, allocs, shadow, pcalls, pres>>
idxVars == <<indexes, index_counter, dropped, icalls, ires>>
bpVars == <<bp_order, node_cache, root_node_id, next_node_id, bp_inserted, bp_repeated,
            bp_deleted, bcalls, bres>>
execVars == <<tables, catalog_indexes, table_counter, catalog_index_counter, index_manager,
              table_data, qcalls, qres>>
vars == <<order, nodes, root, key_to_value, inserted, deleted, dup_seen, nops, result,
          disk, file, orphan, header, is_open, alloc_ids, ncalls, sres,
          page, allocs, shadow, pcalls, pres,
          indexes, index_counter, dropped, icalls, ires,
          bp_order, node_cache, root_node_id, next_node_id, bp_inserted, bp_repeated,
          bp_deleted, bcalls, bres,
          tables, catalog_indexes, table_counter, catalog_index_counter, index_manager,
          table_data, qcalls, qres>>

\* what the calls of one class leave alone: the objects of the other classes
notTree == <<storVars, pageVars, idxVars, bpVars, execVars>>
notStor == <<treeVars, pageVars, idxVars, bpVars, execVars>>
notPage == <<treeVars, storVars, idxVars, bpVars, execVars>>
notIdx == <<treeVars, storVars, pageVars, bpVars, execVars>>
notBP == <<treeVars, storVars, pageVars, idxVars, execVars>>
notExec == <<treeVars, storVars, pageVars, idxVars, bpVars>>

(***************************************************************************)
(* Bounds of the exploration.                                              *)
(***************************************************************************)
MaxKey == 3      \* integer keys 1..MaxKey are offered to the tree
MaxOps == 5      \* tree calls per behaviour
MaxOrder == 4    \* trees of order 3..MaxOrder are constructed

Orders == 3 .. MaxOrder
KeyInputs == 1 .. MaxKey
\* the value stored with a key is the id of the row that holds the key, as the callers
\* of insert pass it (row.row_id); one row per key value
ValuesFor(key) == {key}
Values == UNION {ValuesFor(key) : key \in KeyInputs}
None == 0        \* Python's None where a node reference or a value is expected

(***************************************************************************)
(* Byte strings: sequences over 0..255, compared as Python compares bytes. *)
(***************************************************************************)
RECURSIVE BytesLt(_, _)
BytesLt(a, b) ==
    IF b = <<>> THEN FALSE
    ELSE IF a = <<>> THEN TRUE
    ELSE IF a[1] # b[1] THEN a[1] < b[1]
    ELSE BytesLt(Tail(a), Tail(b))

BytesLe(a, b) == ~BytesLt(b, a)

\* struct.pack(">Q", n) and friends: n in w bytes, most significant first
RECURSIVE BigEndian(_, _)
BigEndian(n, w) ==
    IF w = 0 THEN <<>> ELSE Append(BigEndian(n \div 256, w - 1), n % 256)

\* SimpleBPlusTree._serialize_key for an int key
SerializeKey(key) == BigEndian(key, 8)

SerKeys == {SerializeKey(k) : k \in KeyInputs}

(***************************************************************************)
(* Python list helpers.                                                    *)
(***************************************************************************)
\* list.insert(idx, x) with a 0-based idx <= len(list)
ListInsert(s, idx, x) == SubSeq(s, 1, idx) \o <<x>> \o SubSeq(s, idx + 1, Len(s))
\* list.pop(i) with a 0-based i: the remaining list
ListPop(s, i) == SubSeq(s, 1, i) \o SubSeq(s, i + 2, Len(s))
\* s[a:b] with 0-based bounds, 0 <= a <= b <= len(s)
Slice(s, a, b) == SubSeq(s, a + 1, b)

(***************************************************************************)
(* TreeNode                                                                *)
(***************************************************************************)
NewLeaf(keys, values, next) ==
    [keys |-> keys, values |-> values, children |-> <<>>, next_leaf |-> next,
     is_leaf |-> TRUE]
NewInternal(keys, children) ==
    [keys |-> keys, values |-> <<>>, children |-> children, next_leaf |-> None,
     is_leaf |-> FALSE]

\* The dataclass-generated TreeNode.__eq__, as used by `target in root.children`:
\* identical objects, or field-wise equal ones (keys, values, children, next_leaf, is_leaf).
RECURSIVE NodeEq(_, _, _)
NodeEq(ns, a, b) ==
    \/ a = b
    \/ /\ a # None
       /\ b # None
       /\ ns[a].keys = ns[b].keys
       /\ ns[a].values = ns[b].values
       /\ ns[a].is_leaf = ns[b].is_leaf
       /\ Len(ns[a].children) = Len(ns[b].children)
       /\ \A i \in 1 .. Len(ns[a].children) :
              NodeEq(ns, ns[a].children[i], ns[b].children[i])
       /\ NodeEq(ns, ns[a].next_leaf, ns[b].next_leaf)

\* _find_leaf's loop: the 0-based child index taken for key_bytes
RECURSIVE ChildIndex(_, _, _)
ChildIndex(keys, key_bytes, idx) ==
    IF idx < Len(keys) /\ BytesLe(keys[idx + 1], key_bytes)
    THEN ChildIndex(keys, key_bytes, idx + 1)
    ELSE idx

RECURSIVE FindLeaf(_, _, _)
FindLeaf(ns, node, key_bytes) ==
    IF ns[node].is_leaf THEN node
    ELSE FindLeaf(ns, ns[node].children[ChildIndex(ns[node].keys, key_bytes, 0) + 1],
                  key_bytes)

\* mutant: the scan for the insertion point never advances
InsertIndex_noScan(keys, key, idx) == idx

\* the loop of _insert_into_leaf and _insert_into_internal: first idx with keys[idx] >= key
RECURSIVE InsertIndex(_, _, _)
InsertIndex(keys, key, idx) ==
    IF idx < Len(keys) /\ BytesLt(keys[idx + 1], key)
    THEN InsertIndex(keys, key, idx + 1)
    ELSE idx

\* _insert_into_leaf: the nodes after the call
InsertIntoLeaf(ns, leaf, key, value) ==
    LET idx == InsertIndex(ns[leaf].keys, key, 0)
    IN  [ns EXCEPT ![leaf].keys = ListInsert(@, idx, key),
                   ![leaf].values = ListInsert(@, idx, value)]

\* _find_parent: the first node, in depth-first order, that lists target among its children
RECURSIVE FindParent(_, _, _)
RECURSIVE FindParentIn(_, _, _, _)
FindParent(ns, r, target) ==
    IF ns[r].is_leaf THEN None
    ELSE IF \E i \in 1 .. Len(ns[r].children) : NodeEq(ns, ns[r].children[i], target)
    THEN r
    ELSE FindParentIn(ns, ns[r].children, 1, target)
FindParentIn(ns, children, i, target) ==
    IF i > Len(children) THEN None
    ELSE LET p == FindParent(ns, children[i], target)
         IN  IF p # None THEN p ELSE FindParentIn(ns, children, i + 1, target)

\* A tree is the pair [nodes, root]; the operations below return the tree they leave.
RECURSIVE InsertIntoInternal(_, _, _, _, _, _)
RECURSIVE SplitInternal(_, _, _)

\* mutant: a split of the root appends the right half to the old root's parentless
\* left half instead of constructing a new root
SplitInternal_noNewRoot(ord, T, node) ==
    LET n == T.nodes[node]
        mid == Len(n.keys) \div 2
        promote_key == n.keys[mid + 1]
        new_node == Len(T.nodes) + 1
        ns1 == Append([T.nodes EXCEPT ![node].keys = Slice(n.keys, 0, mid),
                                      ![node].children = Slice(n.children, 0, mid + 1)],
                      NewInternal(Slice(n.keys, mid + 1, Len(n.keys)),
                                  Slice(n.children, mid + 1, Len(n.children))))
        parent == FindParent(ns1, T.root, node)
    IN  IF parent = None
        THEN [nodes |-> [ns1 EXCEPT ![node].keys = Append(@, promote_key),
                                    ![node].children = Append(@, new_node)],
              root |-> T.root]
        ELSE InsertIntoInternal(ord, [nodes |-> ns1, root |-> T.root],
                                parent, promote_key, node, new_node)

SplitInternal(ord, T, node) ==
    LET n == T.nodes[node]
        mid == Len(n.keys) \div 2
        promote_key == n.keys[mid + 1]
        new_node == Len(T.nodes) + 1
        ns1 == Append([T.nodes EXCEPT ![node].keys = Slice(n.keys, 0, mid),
                                      ![node].children = Slice(n.children, 0, mid + 1)],
                      NewInternal(Slice(n.keys, mid + 1, Len(n.keys)),
                                  Slice(n.children, mid + 1, Len(n.children))))
        parent == FindParent(ns1, T.root, node)
    IN  IF parent = None
        THEN [nodes |-> Append(ns1, NewInternal(<<promote_key>>, <<node, new_node>>)),
              root |-> Len(ns1) + 1]
        ELSE InsertIntoInternal(ord, [nodes |-> ns1, root |-> T.root],
                                parent, promote_key, node, new_node)

InsertIntoInternal(ord, T, parent, key, left, right) ==
    LET idx == InsertIndex(T.nodes[parent].keys, key, 0)
        ns1 == [T.nodes EXCEPT ![parent].keys = ListInsert(@, idx, key),
                               ![parent].children = ListInsert(@, idx + 1, right)]
        T1 == [nodes |-> ns1, root |-> T.root]
    IN  IF Len(ns1[parent].keys) >= ord THEN SplitInternal(ord, T1, parent) ELSE T1

\* mutant: the new leaf starts after the promoted key (keys[mid+1:], values[mid+1:])
SplitLeaf_dropsPromoted(ord, T, leaf) ==
    LET n == T.nodes[leaf]
        mid == Len(n.keys) \div 2
        promote_key == n.keys[mid + 1]
        new_leaf == Len(T.nodes) + 1
        ns1 == Append([T.nodes EXCEPT ![leaf].keys = Slice(n.keys, 0, mid),
                                      ![leaf].values = Slice(n.values, 0, mid),
                                      ![leaf].next_leaf = new_leaf],
                      NewLeaf(Slice(n.keys, mid + 1, Len(n.keys)),
                              Slice(n.values, mid + 1, Len(n.values)), n.next_leaf))
        parent == FindParent(ns1, T.root, leaf)
    IN  IF parent = None
        THEN [nodes |-> Append(ns1, NewInternal(<<promote_key>>, <<leaf, new_leaf>>)),
              root |-> Len(ns1) + 1]
        ELSE InsertIntoInternal(ord, [nodes |-> ns1, root |-> T.root],
                                parent, promote_key, leaf, new_leaf)

SplitLeaf(ord, T, leaf) ==
    LET n == T.nodes[leaf]
        mid == Len(n.keys) \div 2
        promote_key == n.keys[mid + 1]
        new_leaf == Len(T.nodes) + 1
        ns1 == Append([T.nodes EXCEPT ![leaf].keys = Slice(n.keys, 0, mid),
                                      ![leaf].values = Slice(n.values, 0, mid),
                                      ![leaf].next_leaf = new_leaf],
                      NewLeaf(Slice(n.keys, mid, Len(n.keys)),
                              Slice(n.values, mid, Len(n.values)), n.next_leaf))
        parent == FindParent(ns1, T.root, leaf)
    IN  IF parent = None
        THEN [nodes |-> Append(ns1, NewInternal(<<promote_key>>, <<leaf, new_leaf>>)),
              root |-> Len(ns1) + 1]
        ELSE InsertIntoInternal(ord, [nodes |-> ns1, root |-> T.root],
                                parent, promote_key, leaf, new_leaf)

\* mutant: insert splits a leaf only once it holds more than order keys
TreeInsert_lateSplit(ord, T, key_bytes, value) ==
    LET leaf == FindLeaf(T.nodes, T.root, key_bytes)
        T1 == [nodes |-> InsertIntoLeaf(T.nodes, leaf, key_bytes, value), root |-> T.root]
    IN  IF Len(T1.nodes[leaf].keys) > ord THEN SplitLeaf(ord, T1, leaf) ELSE T1

\* insert: the tree after the call
TreeInsert(ord, T, key_bytes, value) ==
    LET leaf == FindLeaf(T.nodes, T.root, key_bytes)
        T1 == [nodes |-> InsertIntoLeaf(T.nodes, leaf, key_bytes, value), root |-> T.root]
    IN  IF Len(T1.nodes[leaf].keys) >= ord THEN SplitLeaf(ord, T1, leaf) ELSE T1

\* the loop of search and delete: 0-based index of the first key of the leaf equal to
\* key_bytes, or -1
RECURSIVE FirstMatch(_, _, _)
FirstMatch(keys, key_bytes, i) ==
    IF i >= Len(keys) THEN -1
    ELSE IF keys[i + 1] = key_bytes THEN i
    ELSE FirstMatch(keys, key_bytes, i + 1)

\* search: the returned value, None if there is none
TreeSearch(T, key_bytes) ==
    LET leaf == FindLeaf(T.nodes, T.root, key_bytes)
        i == FirstMatch(T.nodes[leaf].keys, key_bytes, 0)
    IN  IF i >= 0 THEN T.nodes[leaf].values[i + 1] ELSE None

\* range_search: the list of <<key, value>> entries whose values it returns, in the
\* order it returns them.  ScanLeaf is the for loop over one leaf, ScanChain the while.
RECURSIVE ScanLeaf(_, _, _, _, _)
ScanLeaf(n, i, start_bytes, end_bytes, res) ==
    IF i > Len(n.keys) THEN [res |-> res, done |-> FALSE]
    ELSE IF BytesLe(start_bytes, n.keys[i]) /\ BytesLt(n.keys[i], end_bytes)
    THEN ScanLeaf(n, i + 1, start_bytes, end_bytes,
                  Append(res, <<n.keys[i], n.values[i]>>))
    ELSE IF BytesLe(end_bytes, n.keys[i]) THEN [res |-> res, done |-> TRUE]
    ELSE ScanLeaf(n, i + 1, start_bytes, end_bytes, res)

RECURSIVE ScanChain(_, _, _, _, _)
ScanChain(ns, leaf, start_bytes, end_bytes, res) ==
    IF leaf = None THEN res
    ELSE LET r == ScanLeaf(ns[leaf], 1, start_bytes, end_bytes, res)
         IN  IF r.done THEN r.res
             ELSE ScanChain(ns, ns[leaf].next_leaf, start_bytes, end_bytes, r.res)

RangeEntries(T, start_bytes, end_bytes) ==
    ScanChain(T.nodes, FindLeaf(T.nodes, T.root, start_bytes), start_bytes, end_bytes, <<>>)

RangeSearch(T, start_bytes, end_bytes) ==
    LET es == RangeEntries(T, start_bytes, end_bytes)
    IN  [i \in 1 .. Len(es) |-> es[i][2]]

\* mutant: delete pops the leaf's last entry when no key matches (list.pop(-1))
TreeDelete_popsOnMiss(T, k2v, key_bytes) ==
    LET leaf == FindLeaf(T.nodes, T.root, key_bytes)
        n == T.nodes[leaf]
        i == FirstMatch(n.keys, key_bytes, 0)
        k2v1 == [k \in (DOMAIN k2v) \ {key_bytes} |-> k2v[k]]
    IN  IF i >= 0
        THEN [nodes |-> [T.nodes EXCEPT ![leaf].keys = ListPop(@, i),
                                        ![leaf].values = ListPop(@, i)],
              k2v |-> k2v1, ret |-> TRUE]
        ELSE [nodes |-> [T.nodes EXCEPT ![leaf].keys = SubSeq(@, 1, Len(@) - 1),
                                        ![leaf].values = SubSeq(@, 1, Len(@) - 1)],
              k2v |-> k2v1, ret |-> FALSE]

\* delete: the dict, the nodes and the return value after the call
TreeDelete(T, k2v, key_bytes) ==
    IF key_bytes \in DOMAIN k2v
    THEN LET leaf == FindLeaf(T.nodes, T.root, key_bytes)
             i == FirstMatch(T.nodes[leaf].keys, key_bytes, 0)
             k2v1 == [k \in (DOMAIN k2v) \ {key_bytes} |-> k2v[k]]
         IN  IF i >= 0
             THEN [nodes |-> [T.nodes EXCEPT ![leaf].keys = ListPop(@, i),
                                             ![leaf].values = ListPop(@, i)],
                   k2v |-> k2v1, ret |-> TRUE]
             ELSE [nodes |-> T.nodes, k2v |-> k2v1, ret |-> FALSE]
    ELSE [nodes |-> T.nodes, k2v |-> k2v, ret |-> FALSE]

Tree == [nodes |-> nodes, root |-> root]

(***************************************************************************)
(* What a tree holds, read off its object graph.                           *)
(***************************************************************************)
RECURSIVE Concat(_)
Concat(ss) == IF ss = <<>> THEN <<>> ELSE Head(ss) \o Concat(Tail(ss))

Range(s) == {s[i] : i \in DOMAIN s}
Count(s, x) == Cardinality({i \in DOMAIN s : s[i] = x})

\* the leaves below a node, left to right by child position
RECURSIVE LeavesUnder(_, _)
LeavesUnder(ns, n) ==
    IF ns[n].is_leaf THEN <<n>>
    ELSE Concat([i \in 1 .. Len(ns[n].children) |-> LeavesUnder(ns, ns[n].children[i])])

\* all nodes below (and including) a node
RECURSIVE NodesUnder(_, _)
NodesUnder(ns, n) ==
    IF ns[n].is_leaf THEN {n}
    ELSE {n} \cup UNION {NodesUnder(ns, ns[n].children[i]) : i \in 1 .. Len(ns[n].children)}

LeafEntries(n) == [i \in 1 .. Len(n.keys) |-> <<n.keys[i], n.values[i]>>]

\* the <<key, value>> entries stored in the leaves of the tree
StoredEntries(T) ==
    LET ls == LeavesUnder(T.nodes, T.root)
    IN  Concat([i \in 1 .. Len(ls) |-> LeafEntries(T.nodes[ls[i]])])

StoredCount(T, key_bytes) ==
    LET es == StoredEntries(T) IN Cardinality({i \in DOMAIN es : es[i][1] = key_bytes})

\* the leaf reached from the root by always taking children[0]
RECURSIVE Leftmost(_, _)
Leftmost(ns, n) == IF ns[n].is_leaf THEN n ELSE Leftmost(ns, ns[n].children[1])

\* the leaves visited by following next_leaf, at most fuel of them
RECURSIVE Chain(_, _, _)
Chain(ns, leaf, fuel) ==
    IF leaf = None \/ fuel = 0 THEN <<>>
    ELSE <<leaf>> \o Chain(ns, ns[leaf].next_leaf, fuel - 1)

LeafChain(T) == Chain(T.nodes, Leftmost(T.nodes, T.root), Len(T.nodes) + 1)

ChainKeys(T) ==
    LET c == LeafChain(T) IN Concat([i \in 1 .. Len(c) |-> T.nodes[c[i]].keys])

NonDecreasing(keys) == \A i \in 1 .. Len(keys) - 1 : BytesLe(keys[i], keys[i + 1])
StrictlyIncreasing(keys) == \A i \in 1 .. Len(keys) - 1 : BytesLt(keys[i], keys[i + 1])

\* keys offered to the queries of the properties: every key insert can be given, and
\* one more on each side
ProbeKeys == {SerializeKey(k) : k \in 0 .. MaxKey + 1}

(***************************************************************************)
(* Keys of the types a caller can pass.  A key is a record of its Python   *)
(* type and value: an int n, a str as its code points, a bytes object as   *)
(* its bytes, a float with a whole part and a fraction of .0 or .5.        *)
(***************************************************************************)
IntKey(n) == [type |-> "int", val |-> n]
StrKey(cs) == [type |-> "str", val |-> cs]
BytesKey(bs) == [type |-> "bytes", val |-> bs]
FloatKey(whole, half) == [type |-> "float", val |-> <<whole, half>>]

\* the code points of str(n) for an int n >= 0
RECURSIVE Digits(_)
Digits(n) == IF n < 10 THEN <<48 + n>> ELSE Append(Digits(n \div 10), 48 + (n % 10))

HexDigit(d) == IF d < 10 THEN 48 + d ELSE 87 + d

\* repr of one byte inside a bytes literal quoted with the character quote
EscapeByte(b, quote) ==
    IF b = 92 THEN <<92, 92>>
    ELSE IF b = quote THEN <<92, b>>
    ELSE IF b = 9 THEN <<92, 116>>
    ELSE IF b = 10 THEN <<92, 110>>
    ELSE IF b = 13 THEN <<92, 114>>
    ELSE IF b >= 32 /\ b <= 126 THEN <<b>>
    ELSE <<92, 120, HexDigit(b \div 16), HexDigit(b % 16)>>

\* str(key) for a bytes object (its repr: b'...') and for a float
PyStr(key) ==
    IF key.type = "bytes"
    THEN LET bs == key.val
             quote == IF (\E i \in DOMAIN bs : bs[i] = 39) /\ ~(\E i \in DOMAIN bs : bs[i] = 34)
                      THEN 34 ELSE 39
         IN  <<98, quote>> \o Concat([i \in DOMAIN bs |-> EscapeByte(bs[i], quote)])
                 \o <<quote>>
    ELSE Digits(key.val[1]) \o <<46>> \o (IF key.val[2] THEN <<53>> ELSE <<48>>)

\* str.encode('utf-8') for code points below 2048
Utf8(cs) ==
    Concat([i \in DOMAIN cs |->
               IF cs[i] < 128 THEN <<cs[i]>>
               ELSE <<192 + (cs[i] \div 64), 128 + (cs[i] % 64)>>])

\* SimpleBPlusTree._serialize_key
SerializeAnyKey(key) ==
    IF key.type = "int" THEN BigEndian(key.val, 8)
    ELSE IF key.type = "str" THEN Utf8(key.val)
    ELSE Utf8(PyStr(key))

(***************************************************************************)
(* The tree's calls.                                                       *)
(***************************************************************************)
\* created: history, the number of TreeNode objects the call constructed
NoResult == [op |-> "init", key |-> <<>>, key2 |-> <<>>, value |-> None,
             ok |-> FALSE, list |-> <<>>, created |-> 0]

TreeInit ==
    /\ order \in Orders
    /\ nodes = <<NewLeaf(<<>>, <<>>, None)>>
    /\ root = 1
    /\ key_to_value = <<>>
    /\ inserted = {}
    /\ deleted = FALSE
    /\ dup_seen = FALSE
    /\ nops = 0
    /\ result = NoResult

Insert(key, value) ==
    /\ nops < MaxOps
    /\ LET key_bytes == SerializeKey(key)
           T1 == TreeInsert(order, Tree, key_bytes, value)
       IN  /\ key_to_value' = [k \in (DOMAIN key_to_value) \cup {key_bytes} |->
                                   IF k = key_bytes THEN value ELSE key_to_value[k]]
           /\ nodes' = T1.nodes
           /\ root' = T1.root
           /\ inserted' = inserted \cup {<<key_bytes, value>>}
           /\ dup_seen' = (dup_seen \/ StoredCount(Tree, key_bytes) > 0)
           /\ result' = [NoResult EXCEPT !.op = "insert", !.key = key_bytes,
                                         !.value = value,
                                         !.created = Len(T1.nodes) - Len(nodes)]
    /\ nops' = nops + 1
    /\ UNCHANGED <<order, deleted>>
    /\ UNCHANGED notTree

Delete(key) ==
    /\ nops < MaxOps
    /\ LET key_bytes == SerializeKey(key)
           d == TreeDelete(Tree, key_to_value, key_bytes)
       IN  /\ key_to_value' = d.k2v
           /\ nodes' = d.nodes
           /\ result' = [NoResult EXCEPT !.op = "delete", !.key = key_bytes,
                                         !.ok = d.ret]
    /\ deleted' = TRUE
    /\ nops' = nops + 1
    /\ UNCHANGED <<order, root, inserted, dup_seen>>
    /\ UNCHANGED notTree

Search(key) ==
    /\ nops < MaxOps
    /\ nops' = nops + 1
    /\ LET key_bytes == SerializeKey(key)
       IN  result' = [NoResult EXCEPT !.op = "search", !.key = key_bytes,
                                      !.value = TreeSearch(Tree, key_bytes)]
    /\ UNCHANGED <<order, nodes, root, key_to_value, inserted, deleted, dup_seen>>
    /\ UNCHANGED notTree

RangeSearchCall(start_key, end_key) ==
    /\ nops < MaxOps
    /\ nops' = nops + 1
    /\ LET start_bytes == SerializeKey(start_key)
           end_bytes == SerializeKey(end_key)
       IN  result' = [NoResult EXCEPT !.op = "range_search", !.key = start_bytes,
                                      !.key2 = end_bytes,
                                      !.list = RangeSearch(Tree, start_bytes, end_bytes)]
    /\ UNCHANGED <<order, nodes, root, key_to_value, inserted, deleted, dup_seen>>
    /\ UNCHANGED notTree

TreeNext ==
    \/ \E key \in KeyInputs : \E value \in ValuesFor(key) : Insert(key, value)
    \/ \E key \in KeyInputs : Delete(key)
    \/ \E key \in KeyInputs : Search(key)
    \/ \E start_key \in KeyInputs : \E end_key \in (start_key + 1) .. (MaxKey + 1) :
           RangeSearchCall(start_key, end_key)

(***************************************************************************)
(* The tree's calls with keys of every type.                               *)
(***************************************************************************)
MaxKeyCalls == 3   \* typed-key calls per behaviour

\* 1, 'e-acute', "b'a'", b'a', b'\x00\xff', 1.5
TypedKeys == {IntKey(1), StrKey(<<233>>), StrKey(<<98, 39, 97, 39>>), BytesKey(<<97>>),
              BytesKey(<<0, 255>>), FloatKey(1, TRUE)}
TypedRanges == {<<BytesKey(<<0, 255>>), StrKey(<<233>>)>>, <<IntKey(1), FloatKey(1, TRUE)>>}

\* the value stored with a typed key: the length of its str() or of its value
TypedValue(key) == IF key.type \in {"int", "float"} THEN 1 ELSE 1 + Len(key.val)

\* a call has returned: no call of the tree raises for a key of these types
KeyCalled(call, given) ==
    /\ nops < MaxKeyCalls
    /\ nops' = nops + 1
    /\ result' = [op |-> call.op, key |-> call.key, key2 |-> call.key2,
                  value |-> call.value, ok |-> call.ok, list |-> call.list,
                  created |-> call.created,
                  given |-> given, err |-> ""]
    /\ UNCHANGED order
    /\ UNCHANGED notTree

InsertKey(key) ==
    /\ LET key_bytes == SerializeAnyKey(key)
           value == TypedValue(key)
           T1 == TreeInsert(order, Tree, key_bytes, value)
       IN  /\ key_to_value' = [k \in (DOMAIN key_to_value) \cup {key_bytes} |->
                                   IF k = key_bytes THEN value ELSE key_to_value[k]]
           /\ nodes' = T1.nodes
           /\ root' = T1.root
           /\ inserted' = inserted \cup {<<key_bytes, value>>}
           /\ dup_seen' = (dup_seen \/ StoredCount(Tree, key_bytes) > 0)
           /\ KeyCalled([NoResult EXCEPT !.op = "insert", !.key = key_bytes,
                                         !.value = value,
                                         !.created = Len(T1.nodes) - Len(nodes)], key)
    /\ UNCHANGED deleted

DeleteKey(key) ==
    /\ LET key_bytes == SerializeAnyKey(key)
           d == TreeDelete(Tree, key_to_value, key_bytes)
       IN  /\ key_to_value' = d.k2v
           /\ nodes' = d.nodes
           /\ KeyCalled([NoResult EXCEPT !.op = "delete", !.key = key_bytes,
                                         !.ok = d.ret], key)
    /\ deleted' = TRUE
    /\ UNCHANGED <<root, inserted, dup_seen>>

SearchKey(key) ==
    /\ LET key_bytes == SerializeAnyKey(key)
       IN  KeyCalled([NoResult EXCEPT !.op = "search", !.key = key_bytes,
                                     !.value = TreeSearch(Tree, key_bytes)], key)
    /\ UNCHANGED <<nodes, root, key_to_value, inserted, deleted, dup_seen>>

RangeSearchKeys(start_key, end_key) ==
    /\ LET start_bytes == SerializeAnyKey(start_key)
           end_bytes == SerializeAnyKey(end_key)
       IN  KeyCalled([NoResult EXCEPT !.op = "range_search", !.key = start_bytes,
                                     !.key2 = end_bytes,
                                     !.list = RangeSearch(Tree, start_bytes, end_bytes)],
                     start_key)
    /\ UNCHANGED <<nodes, root, key_to_value, inserted, deleted, dup_seen>>

KeyNext ==
    \/ \E key \in TypedKeys : InsertKey(key)
    \/ \E key \in TypedKeys : DeleteKey(key)
    \/ \E key \in TypedKeys : SearchKey(key)
    \/ \E r \in TypedRanges : RangeSearchKeys(r[1], r[2])

(***************************************************************************)
(* The tree's calls on trees that earlier inserts have made several levels *)
(* deep.                                                                   *)
(***************************************************************************)
MaxGrowOps == 3   \* calls per behaviour after the ones that built the tree

\* the keys of the inserts that built the tree: ascending ones, and ones with repeats
AscendingSeed == <<1, 2, 3, 4, 5, 6>>
RepeatingSeed == <<1, 1, 2, 3, 3, 2>>
Seeds == {AscendingSeed, RepeatingSeed}
SeedLen == Len(AscendingSeed)
GrowKeys == {1, 2, 3, 7}

\* SimpleBPlusTree(order=ord) after insert(keys[1], 1), ..., insert(keys[n], n)
RECURSIVE Seeded(_, _, _)
Seeded(ord, keys, n) ==
    IF n = 0
    THEN [nodes |-> <<NewLeaf(<<>>, <<>>, None)>>, root |-> 1, key_to_value |-> <<>>,
          inserted |-> {}, dup_seen |-> FALSE]
    ELSE LET s == Seeded(ord, keys, n - 1)
             T == [nodes |-> s.nodes, root |-> s.root]
             key_bytes == SerializeKey(keys[n])
             T1 == TreeInsert(ord, T, key_bytes, n)
         IN  [nodes |-> T1.nodes, root |-> T1.root,
              key_to_value |-> [k \in (DOMAIN s.key_to_value) \cup {key_bytes} |->
                                   IF k = key_bytes THEN n ELSE s.key_to_value[k]],
              inserted |-> s.inserted \cup {<<key_bytes, n>>},
              dup_seen |-> (s.dup_seen \/ StoredCount(T, key_bytes) > 0)]

GrowInit ==
    /\ order = 3
    /\ \E keys \in Seeds :
          LET s == Seeded(3, keys, Len(keys))
          IN  /\ nodes = s.nodes
              /\ root = s.root
              /\ key_to_value = s.key_to_value
              /\ inserted = s.inserted
              /\ dup_seen = s.dup_seen
              /\ nops = Len(keys)
    /\ deleted = FALSE
    /\ result = NoResult

\* insert(key, value) where value is the number of the call
GrowInsert(key) ==
    /\ nops < SeedLen + MaxGrowOps
    /\ LET key_bytes == SerializeKey(key)
           value == nops + 1
           T1 == TreeInsert(order, Tree, key_bytes, value)
       IN  /\ key_to_value' = [k \in (DOMAIN key_to_value) \cup {key_bytes} |->
                                   IF k = key_bytes THEN value ELSE key_to_value[k]]
           /\ nodes' = T1.nodes
           /\ root' = T1.root
           /\ inserted' = inserted \cup {<<key_bytes, value>>}
           /\ dup_seen' = (dup_seen \/ StoredCount(Tree, key_bytes) > 0)
           /\ result' = [NoResult EXCEPT !.op = "insert", !.key = key_bytes,
                                         !.value = value,
                                         !.created = Len(T1.nodes) - Len(nodes)]
    /\ nops' = nops + 1
    /\ UNCHANGED <<order, deleted>>
    /\ UNCHANGED notTree

GrowDelete(key) ==
    /\ nops < SeedLen + MaxGrowOps
    /\ LET key_bytes == SerializeKey(key)
           d == TreeDelete(Tree, key_to_value, key_bytes)
       IN  /\ key_to_value' = d.k2v
           /\ nodes' = d.nodes
           /\ result' = [NoResult EXCEPT !.op = "delete", !.key = key_bytes,
                                         !.ok = d.ret]
    /\ deleted' = TRUE
    /\ nops' = nops + 1
    /\ UNCHANGED <<order, root, inserted, dup_seen>>
    /\ UNCHANGED notTree

GrowNext ==
    \/ \E key \in GrowKeys : GrowInsert(key)
    \/ \E key \in GrowKeys : GrowDelete(key)

(***************************************************************************)
(* IndexManager: a dict of trees by name.                                  *)
(***************************************************************************)
MaxIndexCalls == 6   \* IndexManager calls per behaviour

IndexNames == {"by_id", "by_name"}
IndexKeys == {1, 2}
IndexRanges == {<<1, 2>>, <<1, 3>>}

\* SimpleBPlusTree(order=4) as the manager holds it
NewTree == [order |-> 4, nodes |-> <<NewLeaf(<<>>, <<>>, None)>>, root |-> 1,
            key_to_value |-> <<>>]
TreeOf(t) == [nodes |-> t.nodes, root |-> t.root]

NoIndexCall == [op |-> "init", index_name |-> "", err |-> "", key |-> <<>>, key2 |-> <<>>,
                value |-> None, ret |-> None, ok |-> FALSE, list |-> <<>>]

\* mutant: create_index without the test for a registered name
ManagerCreate_replaces(ixs, index_name) ==
    [indexes |-> [n \in (DOMAIN ixs) \cup {index_name} |->
                     IF n = index_name THEN NewTree ELSE ixs[n]],
     err |-> ""]

\* create_index: the dict after the call and the error raised ("" if none)
ManagerCreate(ixs, index_name) ==
    IF index_name \in DOMAIN ixs
    THEN [indexes |-> ixs, err |-> "ValueError"]
    ELSE [indexes |-> [n \in (DOMAIN ixs) \cup {index_name} |->
                          IF n = index_name THEN NewTree ELSE ixs[n]],
          err |-> ""]

\* drop_index
ManagerDrop(ixs, index_name) ==
    IF index_name \notin DOMAIN ixs
    THEN [indexes |-> ixs, err |-> "ValueError"]
    ELSE [indexes |-> [n \in (DOMAIN ixs) \ {index_name} |-> ixs[n]], err |-> ""]

IndexInit ==
    /\ indexes = <<>>
    /\ index_counter = 0
    /\ dropped = {}
    /\ icalls = 0
    /\ ires = NoIndexCall

HoldsEntries(t) == \E n \in DOMAIN t.nodes : t.nodes[n].is_leaf /\ t.nodes[n].keys # <<>>

IndexCalled(call) ==
    /\ icalls < MaxIndexCalls
    /\ icalls' = icalls + 1
    /\ ires' = call
    /\ dropped' = IF call.op = "drop_index" /\ call.err = "" /\ HoldsEntries(indexes[call.index_name])
                  THEN dropped \cup {call.index_name}
                  ELSE dropped
    /\ UNCHANGED index_counter
    /\ UNCHANGED notIdx

IndexRaises(op, index_name) ==
    /\ IndexCalled([NoIndexCall EXCEPT !.op = op, !.index_name = index_name,
                                       !.err = "ValueError"])
    /\ UNCHANGED indexes

CreateIndex(index_name) ==
    LET c == ManagerCreate(indexes, index_name)
    IN  /\ indexes' = c.indexes
        /\ IndexCalled([NoIndexCall EXCEPT !.op = "create_index", !.index_name = index_name,
                                           !.err = c.err])

DropIndex(index_name) ==
    LET c == ManagerDrop(indexes, index_name)
    IN  /\ indexes' = c.indexes
        /\ IndexCalled([NoIndexCall EXCEPT !.op = "drop_index", !.index_name = index_name,
                                           !.err = c.err])

\* mutant: every registered name is bound to one shared tree object
IndexInsert_sharedTree(index_name, key, value) ==
    IF index_name \notin DOMAIN indexes THEN IndexRaises("insert", index_name)
    ELSE LET key_bytes == SerializeKey(key)
             After(t) ==
                 LET T1 == TreeInsert(t.order, TreeOf(t), key_bytes, value)
                 IN  [order |-> t.order, nodes |-> T1.nodes, root |-> T1.root,
                      key_to_value |-> [k \in (DOMAIN t.key_to_value) \cup {key_bytes} |->
                                           IF k = key_bytes THEN value ELSE t.key_to_value[k]]]
         IN  /\ indexes' = [n \in DOMAIN indexes |-> After(indexes[n])]
             /\ IndexCalled([NoIndexCall EXCEPT !.op = "insert", !.index_name = index_name,
                                                !.key = key_bytes, !.value = value])

IndexInsert(index_name, key, value) ==
    IF index_name \notin DOMAIN indexes THEN IndexRaises("insert", index_name)
    ELSE LET t == indexes[index_name]
             key_bytes == SerializeKey(key)
             T1 == TreeInsert(t.order, TreeOf(t), key_bytes, value)
             k2v == [k \in (DOMAIN t.key_to_value) \cup {key_bytes} |->
                        IF k = key_bytes THEN value ELSE t.key_to_value[k]]
         IN  /\ indexes' = [indexes EXCEPT ![index_name] =
                               [order |-> t.order, nodes |-> T1.nodes, root |-> T1.root,
                                key_to_value |-> k2v]]
             /\ IndexCalled([NoIndexCall EXCEPT !.op = "insert", !.index_name = index_name,
                                                !.key = key_bytes, !.value = value])

IndexSearch(index_name, key) ==
    IF index_name \notin DOMAIN indexes THEN IndexRaises("search", index_name)
    ELSE LET key_bytes == SerializeKey(key)
         IN  /\ IndexCalled([NoIndexCall EXCEPT
                                 !.op = "search", !.index_name = index_name,
                                 !.key = key_bytes,
                                 !.ret = TreeSearch(TreeOf(indexes[index_name]), key_bytes)])
             /\ UNCHANGED indexes

IndexDelete(index_name, key) ==
    IF index_name \notin DOMAIN indexes THEN IndexRaises("delete", index_name)
    ELSE LET t == indexes[index_name]
             key_bytes == SerializeKey(key)
             d == TreeDelete(TreeOf(t), t.key_to_value, key_bytes)
         IN  /\ indexes' = [indexes EXCEPT ![index_name] =
                               [t EXCEPT !.nodes = d.nodes, !.key_to_value = d.k2v]]
             /\ IndexCalled([NoIndexCall EXCEPT !.op = "delete", !.index_name = index_name,
                                                !.key = key_bytes, !.ok = d.ret])

IndexRangeSearch(index_name, start_key, end_key) ==
    IF index_name \notin DOMAIN indexes THEN IndexRaises("range_search", index_name)
    ELSE LET start_bytes == SerializeKey(start_key)
             end_bytes == SerializeKey(end_key)
         IN  /\ IndexCalled([NoIndexCall EXCEPT
                                 !.op = "range_search", !.index_name = index_name,
                                 !.key = start_bytes, !.key2 = end_bytes,
                                 !.list = RangeSearch(TreeOf(indexes[index_name]),
                                                      start_bytes, end_bytes)])
             /\ UNCHANGED indexes

IndexNext ==
    \/ \E index_name \in IndexNames : CreateIndex(index_name)
    \/ \E index_name \in IndexNames : DropIndex(index_name)
    \/ \E index_name \in IndexNames : \E key \in IndexKeys : \E value \in ValuesFor(key) :
           IndexInsert(index_name, key, value)
    \/ \E index_name \in IndexNames : \E key \in IndexKeys : IndexSearch(index_name, key)
    \/ \E index_name \in IndexNames : \E key \in IndexKeys : IndexDelete(index_name, key)
    \/ \E index_name \in IndexNames : \E r \in IndexRanges :
           IndexRangeSearch(index_name, r[1], r[2])

(***************************************************************************)
(* Binary layout helpers.  A run of bytes of a 4096-byte block is kept as  *)
(* a function from the offsets of its non-zero bytes to those bytes; every *)
(* offset outside the function's domain holds zero.                        *)
(***************************************************************************)
\* struct.pack("<...") of one unsigned field: n in w bytes, least significant first
RECURSIVE LittleEndian(_, _)
LittleEndian(n, w) ==
    IF w = 0 THEN <<>> ELSE <<n % 256>> \o LittleEndian(n \div 256, w - 1)

\* struct.unpack("<...") of one unsigned field
RECURSIVE FromLittleEndian(_)
FromLittleEndian(bs) ==
    IF bs = <<>> THEN 0 ELSE bs[1] + 256 * FromLittleEndian(Tail(bs))

Sparse(bs, base) ==
    [o \in {base + j - 1 : j \in {i \in DOMAIN bs : bs[i] # 0}} |-> bs[o - base + 1]]
ByteAt(B, o) == IF o \in DOMAIN B THEN B[o] ELSE 0
BytesAt(B, o, n) == [i \in 1 .. n |-> ByteAt(B, o + i - 1)]
ZeroBlock == [o \in {} |-> 0]

RECURSIVE BitXor(_, _)
BitXor(a, b) ==
    IF a = 0 THEN b
    ELSE IF b = 0 THEN a
    ELSE ((a + b) % 2) + 2 * BitXor(a \div 2, b \div 2)

RECURSIVE XorOver(_, _)
XorOver(B, S) ==
    IF S = {} THEN 0
    ELSE LET o == CHOOSE x \in S : TRUE IN BitXor(B[o], XorOver(B, S \ {o}))

(***************************************************************************)
(* Page (src/storage/page.py)                                              *)
(***************************************************************************)
PAGE_SIZE == 4096
HEADER_SIZE == 29
DATA_SIZE == PAGE_SIZE - HEADER_SIZE

FREE == 0
DATA == 1
INDEX == 2
CATALOG == 3
FREE_SPACE_MAP == 4
PageTypes == {FREE, DATA, INDEX, CATALOG, FREE_SPACE_MAP}

\* a 32-bit word as its four bytes, least significant first
ZeroWord == <<0, 0, 0, 0>>

\* Page.__init__
Page(page_id, page_type, table_id) ==
    [page_id |-> page_id, page_type |-> page_type, table_id |-> table_id,
     free_space_start |-> HEADER_SIZE, free_space_end |-> PAGE_SIZE, lsn |-> 0,
     checksum |-> ZeroWord, data |-> ZeroBlock, dirty |-> FALSE]

\* stands where a call returned no page
NoPage == [Page(-1, FREE, 0) EXCEPT !.free_space_start = 0, !.free_space_end = 0]

\* Page.allocate_space: the page after the call, whether an offset was returned, and it
AllocateSpace(p, size) ==
    IF p.free_space_start + size <= p.free_space_end
    THEN [page |-> [p EXCEPT !.free_space_start = @ + size, !.dirty = TRUE],
          ok |-> TRUE, offset |-> p.free_space_start]
    ELSE [page |-> p, ok |-> FALSE, offset |-> 0]

\* mutant: write_data indexes the data region with the page offset
WriteData_pageOffset(p, offset, bs) ==
    IF offset < HEADER_SIZE \/ offset + Len(bs) > PAGE_SIZE
    THEN [page |-> p, ok |-> FALSE]
    ELSE LET data_offset == offset
             span == data_offset .. (data_offset + Len(bs) - 1)
             keep == (DOMAIN p.data) \ span
             set == {o \in span : bs[o - data_offset + 1] # 0}
         IN  [page |-> [p EXCEPT !.data = [o \in keep \cup set |->
                                              IF o \in span THEN bs[o - data_offset + 1]
                                              ELSE p.data[o]],
                                 !.dirty = TRUE],
              ok |-> TRUE]

\* Page.write_data: the page after the call and whether it returned (ok) or raised
WriteData(p, offset, bs) ==
    IF offset < HEADER_SIZE \/ offset + Len(bs) > PAGE_SIZE
    THEN [page |-> p, ok |-> FALSE]
    ELSE LET data_offset == offset - HEADER_SIZE
             span == data_offset .. (data_offset + Len(bs) - 1)
             keep == (DOMAIN p.data) \ span
             set == {o \in span : bs[o - data_offset + 1] # 0}
         IN  [page |-> [p EXCEPT !.data = [o \in keep \cup set |->
                                              IF o \in span THEN bs[o - data_offset + 1]
                                              ELSE p.data[o]],
                                 !.dirty = TRUE],
              ok |-> TRUE]

\* Page.read_data
ReadData(p, offset, size) ==
    IF offset < HEADER_SIZE \/ offset + size > PAGE_SIZE
    THEN [ok |-> FALSE, bytes |-> <<>>]
    ELSE [ok |-> TRUE, bytes |-> BytesAt(p.data, offset - HEADER_SIZE, size)]

\* struct.pack(HEADER_FORMAT, ...) raises struct.error on a field outside its unsigned
\* range (the upper ends of the 32- and 64-bit fields are beyond the integers used here)
CanPack(p) ==
    /\ p.page_id >= 0
    /\ p.page_type \in 0 .. 255
    /\ p.table_id >= 0
    /\ p.free_space_start \in 0 .. 65535
    /\ p.free_space_end \in 0 .. 65535
    /\ p.lsn >= 0

\* struct.pack(HEADER_FORMAT, page_id, page_type, table_id, start, end, lsn, checksum)
PackHeader(p, checksum) ==
    LittleEndian(p.page_id, 8) \o <<p.page_type>> \o LittleEndian(p.table_id, 4)
        \o LittleEndian(p.free_space_start, 2) \o LittleEndian(p.free_space_end, 2)
        \o LittleEndian(p.lsn, 8) \o checksum

\* the data region placed behind the header
DataBytes(p) == [o \in {d + HEADER_SIZE : d \in DOMAIN p.data} |-> p.data[o - HEADER_SIZE]]

\* Page._calculate_checksum over length bytes: XOR of the little-endian 32-bit words
CalculateChecksum(B, length) ==
    IF length < 4 THEN ZeroWord
    ELSE [j \in 1 .. 4 |-> XorOver(B, {o \in DOMAIN B : o % 4 = j - 1})]

\* Page.serialize: whether it returned, the 4096 bytes, and the page it leaves
Serialize(p) ==
    IF ~CanPack(p) THEN [ok |-> FALSE, bytes |-> ZeroBlock, length |-> 0, page |-> p]
    ELSE LET header0 == PackHeader(p, p.checksum)
             checksum == CalculateChecksum(Sparse(header0, 0) @@ DataBytes(p),
                                           HEADER_SIZE + DATA_SIZE)
         IN  [ok |-> TRUE,
              bytes |-> Sparse(PackHeader(p, checksum), 0) @@ DataBytes(p),
              length |-> Len(PackHeader(p, checksum)) + DATA_SIZE,
              page |-> [p EXCEPT !.checksum = checksum]]

\* Page.deserialize(page_id, raw_data) with len(raw_data) = length
Deserialize(page_id, B, length) ==
    IF length # PAGE_SIZE THEN [ok |-> FALSE, page |-> NoPage]
    ELSE IF ByteAt(B, 8) \notin PageTypes THEN [ok |-> FALSE, page |-> NoPage]
    ELSE [ok |-> TRUE,
          page |-> [page_id |-> FromLittleEndian(BytesAt(B, 0, 8)),
                    page_type |-> ByteAt(B, 8),
                    table_id |-> FromLittleEndian(BytesAt(B, 9, 4)),
                    free_space_start |-> FromLittleEndian(BytesAt(B, 13, 2)),
                    free_space_end |-> FromLittleEndian(BytesAt(B, 15, 2)),
                    lsn |-> FromLittleEndian(BytesAt(B, 17, 8)),
                    checksum |-> BytesAt(B, 25, 4),
                    data |-> [d \in {o - HEADER_SIZE : o \in {x \in DOMAIN B : x >= HEADER_SIZE}}
                                 |-> B[d + HEADER_SIZE]],
                    dirty |-> FALSE]]

(***************************************************************************)
(* DatabaseHeader and StorageManager (src/storage/storage_manager.py)      *)
(***************************************************************************)
MAGIC_NUMBER == 1347241026
InitialPages == 10

MaxPages == 12   \* the file is grown to at most MaxPages pages
MaxCalls == 5    \* storage calls per behaviour

\* Page(i, PageType.FREE).serialize() for every slot the file can come to hold
FreePageBytes == [i \in 0 .. MaxPages |-> Serialize(Page(i, FREE, 0)).bytes]

\* DatabaseHeader.__init__
NewHeader ==
    [magic |-> MAGIC_NUMBER, page_size |-> PAGE_SIZE, db_size |-> 0, catalog_root |-> 0,
     free_list_head |-> 0, last_transaction_id |-> 0, checksum |-> 0]

\* DatabaseHeader.serialize
HeaderSerialize(h) ==
    Sparse(LittleEndian(h.magic, 4) \o LittleEndian(h.page_size, 4)
               \o LittleEndian(h.db_size, 8) \o LittleEndian(h.catalog_root, 8)
               \o LittleEndian(h.free_list_head, 8)
               \o LittleEndian(h.last_transaction_id, 8) \o LittleEndian(h.checksum, 4),
           0)

\* DatabaseHeader.deserialize(data) with len(data) = length
HeaderDeserialize(B, length) ==
    IF length < 44 THEN [ok |-> FALSE, header |-> NewHeader]
    ELSE IF BytesAt(B, 0, 4) # LittleEndian(MAGIC_NUMBER, 4)
    THEN [ok |-> FALSE, header |-> NewHeader]
    ELSE [ok |-> TRUE,
          header |-> [magic |-> FromLittleEndian(BytesAt(B, 0, 4)),
                      page_size |-> FromLittleEndian(BytesAt(B, 4, 4)),
                      db_size |-> FromLittleEndian(BytesAt(B, 8, 8)),
                      catalog_root |-> FromLittleEndian(BytesAt(B, 16, 8)),
                      free_list_head |-> FromLittleEndian(BytesAt(B, 24, 8)),
                      last_transaction_id |-> FromLittleEndian(BytesAt(B, 32, 8)),
                      checksum |-> FromLittleEndian(BytesAt(B, 40, 4))]]

\* seek(slot * PAGE_SIZE) followed by writes of whole blocks: the file's blocks afterwards
WriteAt(blocks, slot, bs) ==
    LET last == IF slot + Len(bs) > Len(blocks) THEN slot + Len(bs) ELSE Len(blocks)
    IN  [i \in 1 .. last |->
            IF i - 1 >= slot /\ i - 1 < slot + Len(bs) THEN bs[i - slot]
            ELSE IF i <= Len(blocks) THEN blocks[i]
            ELSE ZeroBlock]

FileLength(blocks) == Len(blocks) * PAGE_SIZE

\* StorageManager._extend_file on a held file handle: the blocks and header it leaves
ExtendFile(blocks, h, new_size) ==
    IF new_size <= h.db_size THEN [blocks |-> blocks, header |-> h]
    ELSE LET old_size == h.db_size
             fresh == [i \in 1 .. (new_size - old_size) |->
                          FreePageBytes[old_size + i - 1]]
             h1 == [h EXCEPT !.db_size = new_size]
         IN  [blocks |-> WriteAt(WriteAt(blocks, old_size, fresh), 0, <<HeaderSerialize(h1)>>),
              header |-> h1]

\* StorageManager.read_page: the error raised ("" if none) and the page returned
ReadPage(blocks, h, open, page_id) ==
    IF ~open THEN [err |-> "RuntimeError", page |-> NoPage]
    ELSE IF page_id >= h.db_size THEN [err |-> "OutOfBounds", page |-> NoPage]
    ELSE IF page_id + 1 > Len(blocks) THEN [err |-> "ShortRead", page |-> NoPage]
    ELSE LET r == Deserialize(page_id, blocks[page_id + 1], PAGE_SIZE)
         IN  IF r.ok THEN [err |-> "", page |-> r.page]
             ELSE [err |-> "ValueError", page |-> NoPage]

\* mutant: write_page extends the file to page_id pages instead of page_id + 1
WritePage_shortExtend(blocks, h, open, p) ==
    IF ~open THEN [err |-> "RuntimeError", blocks |-> blocks, header |-> h, page |-> p]
    ELSE LET e == IF p.page_id >= h.db_size THEN ExtendFile(blocks, h, p.page_id)
                  ELSE [blocks |-> blocks, header |-> h]
             s == Serialize(p)
         IN  IF ~s.ok
             THEN [err |-> "struct.error", blocks |-> e.blocks, header |-> e.header,
                   page |-> p]
             ELSE [err |-> "", blocks |-> WriteAt(e.blocks, p.page_id, <<s.bytes>>),
                   header |-> e.header, page |-> [s.page EXCEPT !.dirty = FALSE]]

\* StorageManager.write_page: the error raised ("" if none), the blocks and header it
\* leaves, and the page object afterwards
WritePage(blocks, h, open, p) ==
    IF ~open THEN [err |-> "RuntimeError", blocks |-> blocks, header |-> h, page |-> p]
    ELSE LET e == IF p.page_id >= h.db_size THEN ExtendFile(blocks, h, p.page_id + 1)
                  ELSE [blocks |-> blocks, header |-> h]
             s == Serialize(p)
         IN  IF ~s.ok
             THEN [err |-> "struct.error", blocks |-> e.blocks, header |-> e.header,
                   page |-> p]
             ELSE [err |-> "", blocks |-> WriteAt(e.blocks, p.page_id, <<s.bytes>>),
                   header |-> e.header, page |-> [s.page EXCEPT !.dirty = FALSE]]

\* StorageManager.allocate_page on a held file handle
AllocatePage(blocks, h, open, page_type, table_id) ==
    LET new_page_id == h.db_size
        e == ExtendFile(blocks, h, new_page_id + 1)
    IN  WritePage(e.blocks, e.header, open, Page(new_page_id, page_type, table_id))

(***************************************************************************)
(* The storage manager's calls.                                            *)
(***************************************************************************)
\* page ids handed to the calls: the header's slot, a page create_database wrote, and
\* every slot past the end of a new file
PageIds == {0, 1} \cup (InitialPages .. MaxPages - 1)
\* allocate_page's (page_type, table_id) arguments
AllocRequests == {<<DATA, 0>>, <<INDEX, 7>>}

\* pages a caller hands to write_page: a page with a record written into it, and a
\* page whose free_space_start a negative allocation has moved below zero
RecordPage(page_id) ==
    WriteData(AllocateSpace(Page(page_id, INDEX, 7), 3).page, HEADER_SIZE,
              <<65, 0, 255>>).page
OverdrawnPage(page_id) == AllocateSpace(Page(page_id, DATA, 0), -30).page
CallerPages(page_id) == {RecordPage(page_id), OverdrawnPage(page_id)}

\* self.file refers to the file at db_path
NoOrphan == [held |-> FALSE, blocks |-> <<>>]

\* the blocks of the file a handle refers to
FileOf(d, o) == IF o.held THEN o.blocks ELSE d.blocks
FileBlocks == FileOf(disk, orphan)

\* the files after the blocks bs have been written through self.file
WriteFile(bs) ==
    IF orphan.held
    THEN orphan' = [orphan EXCEPT !.blocks = bs] /\ disk' = disk
    ELSE disk' = [disk EXCEPT !.blocks = bs] /\ orphan' = orphan

NoCall == [op |-> "init", err |-> "", page_id |-> 0, arg |-> NoPage, page |-> NoPage]

StorInit ==
    /\ disk = [exists |-> FALSE, blocks |-> <<>>]
    /\ file = FALSE
    /\ orphan = NoOrphan
    /\ header = NewHeader
    /\ is_open = FALSE
    /\ alloc_ids = <<>>
    /\ ncalls = 0
    /\ sres = NoCall

TreeIdle ==
    /\ order = 4
    /\ nodes = <<NewLeaf(<<>>, <<>>, None)>>
    /\ root = 1
    /\ key_to_value = <<>>
    /\ inserted = {}
    /\ deleted = FALSE
    /\ dup_seen = FALSE
    /\ nops = 0
    /\ result = NoResult

\* a call has returned or raised: what is recorded of it
CalledWith(call) ==
    /\ ncalls < MaxCalls
    /\ ncalls' = ncalls + 1
    /\ sres' = call
    /\ UNCHANGED notStor

Called(op, err, page_id, arg, returned) ==
    CalledWith([op |-> op, err |-> err, page_id |-> page_id, arg |-> arg,
                page |-> returned])

CreateCalled(overwrite, err) ==
    CalledWith([op |-> "create_database", err |-> err, page_id |-> 0, arg |-> NoPage,
                page |-> NoPage, overwrite |-> overwrite])

\* create_database.  Path.unlink on a file self.file is open on leaves the handle on the
\* unlinked file.
CreateDatabase(overwrite) ==
    /\ IF disk.exists /\ ~overwrite
       THEN /\ CreateCalled(overwrite, "FileExistsError")
            /\ UNCHANGED <<disk, orphan, header>>
       ELSE LET h1 == [header EXCEPT !.db_size = InitialPages]
            IN  /\ header' = h1
                /\ orphan' = IF file /\ disk.exists
                              THEN [held |-> TRUE, blocks |-> FileBlocks]
                              ELSE orphan
                /\ disk' = [exists |-> TRUE,
                            blocks |-> <<HeaderSerialize(h1)>> \o
                                       [i \in 1 .. InitialPages - 1 |->
                                           FreePageBytes[i]]]
                /\ CreateCalled(overwrite, "")
    /\ UNCHANGED <<file, is_open, alloc_ids>>

Open ==
    IF ~disk.exists
    THEN /\ Called("open", "FileNotFoundError", 0, NoPage, NoPage)
         /\ UNCHANGED <<disk, file, orphan, header, is_open, alloc_ids>>
    ELSE LET length == IF FileLength(disk.blocks) < PAGE_SIZE THEN FileLength(disk.blocks)
                       ELSE PAGE_SIZE
             r == HeaderDeserialize(IF length = 0 THEN ZeroBlock ELSE disk.blocks[1], length)
         IN  /\ file' = TRUE
             /\ orphan' = NoOrphan
             /\ header' = IF r.ok THEN r.header ELSE header
             /\ is_open' = (is_open \/ (r.ok /\ r.header.page_size = PAGE_SIZE))
             /\ alloc_ids' = IF is_open' /\ ~is_open THEN <<>> ELSE alloc_ids
             /\ Called("open",
                       IF r.ok /\ r.header.page_size = PAGE_SIZE THEN "" ELSE "ValueError",
                       0, NoPage, NoPage)
             /\ UNCHANGED disk

Close ==
    /\ file' = FALSE
    /\ is_open' = (IF file THEN FALSE ELSE is_open)
    /\ alloc_ids' = (IF file THEN <<>> ELSE alloc_ids)
    /\ orphan' = NoOrphan
    /\ Called("close", "", 0, NoPage, NoPage)
    /\ UNCHANGED <<disk, header>>

ReadPageCall(page_id) ==
    /\ LET r == ReadPage(FileBlocks, header, is_open, page_id)
       IN  Called("read_page", r.err, page_id, NoPage, r.page)
    /\ UNCHANGED <<disk, file, orphan, header, is_open, alloc_ids>>

WritePageCall(p) ==
    /\ p.page_id >= header.db_size => p.page_id + 1 <= MaxPages
    /\ LET w == WritePage(FileBlocks, header, is_open, p)
       IN  /\ WriteFile(w.blocks)
           /\ header' = w.header
           /\ Called("write_page", w.err, p.page_id, p, w.page)
    /\ UNCHANGED <<file, is_open, alloc_ids>>

AllocatePageCall(page_type, table_id) ==
    /\ header.db_size + 1 <= MaxPages
    /\ IF ~file
       THEN /\ Called("allocate_page", "AttributeError", header.db_size, NoPage, NoPage)
            /\ UNCHANGED <<disk, orphan, header, alloc_ids>>
       ELSE LET w == AllocatePage(FileBlocks, header, is_open, page_type, table_id)
            IN  /\ WriteFile(w.blocks)
                /\ header' = w.header
                /\ alloc_ids' = IF w.err = "" THEN Append(alloc_ids, w.page.page_id)
                                ELSE alloc_ids
                /\ Called("allocate_page", w.err, header.db_size,
                          Page(header.db_size, page_type, table_id),
                          IF w.err = "" THEN w.page ELSE NoPage)
    /\ UNCHANGED <<file, is_open>>

ExtendFileCall(new_size) ==
    /\ new_size <= MaxPages
    /\ IF ~file /\ new_size > header.db_size
       THEN /\ Called("_extend_file", "AttributeError", new_size, NoPage, NoPage)
            /\ UNCHANGED <<disk, orphan, header>>
       ELSE LET e == ExtendFile(FileBlocks, header, new_size)
            IN  /\ WriteFile(e.blocks)
                /\ header' = e.header
                /\ Called("_extend_file", "", new_size, NoPage, NoPage)
    /\ UNCHANGED <<file, is_open, alloc_ids>>

\* write_page of the page object the previous call returned
WriteBackCall == sres.page # NoPage /\ WritePageCall(sres.page)

StorageNext ==
    \/ \E overwrite \in BOOLEAN : CreateDatabase(overwrite)
    \/ Open
    \/ Close
    \/ \E page_id \in PageIds \cup {MaxPages} : ReadPageCall(page_id)
    \/ \E page_id \in PageIds : \E p \in CallerPages(page_id) : WritePageCall(p)
    \/ WriteBackCall
    \/ \E r \in AllocRequests : AllocatePageCall(r[1], r[2])
    \/ \E new_size \in {InitialPages, MaxPages} : ExtendFileCall(new_size)

(***************************************************************************)
(* BPlusTree: the tree whose nodes refer to each other by node id.         *)
(***************************************************************************)
MaxBPCalls == 4   \* BPlusTree calls per behaviour

BPOrders == {3, 4}
BPKeys == {1, 2, 3}
BPRanges == {<<1, 4>>, <<2, 3>>}

Absent == -2       \* Python's None where a node id or a record pointer is expected
Unnumbered == -1   \* the node_id BPNode.split gives the node it constructs

INTERNAL_NODE == "INTERNAL"
LEAF_NODE == "LEAF"

\* struct.pack("<Q", key)
BPSerializeKey(key) == LittleEndian(key, 8)

BPNode(node_id, node_type) ==
    [node_id |-> node_id, node_type |-> node_type, keys |-> <<>>, children |-> <<>>,
     next_leaf |-> Absent, parent |-> Absent]

\* config.max_keys is order - 1
IsFull(n, ord) == Len(n.keys) >= ord - 1

InsertKeyValue(n, key, value) ==
    LET pos == InsertIndex(n.keys, key, 0)
    IN  [n EXCEPT !.keys = ListInsert(@, pos, key), !.children = ListInsert(@, pos, value)]

InsertKeyChild(n, key, child_id) ==
    LET pos == InsertIndex(n.keys, key, 0)
    IN  [n EXCEPT !.keys = ListInsert(@, pos, key),
                  !.children = ListInsert(@, pos + 1, child_id)]

\* find_key_position: the 0-based position and whether the key at it equals key
RECURSIVE FindKeyPosition(_, _, _)
FindKeyPosition(keys, key, i) ==
    IF i >= Len(keys) THEN [pos |-> Len(keys), found |-> FALSE]
    ELSE IF keys[i + 1] = key THEN [pos |-> i, found |-> TRUE]
    ELSE IF BytesLt(key, keys[i + 1]) THEN [pos |-> i, found |-> FALSE]
    ELSE FindKeyPosition(keys, key, i + 1)

GetChildForKey(n, key) == n.children[FindKeyPosition(n.keys, key, 0).pos + 1]

RECURSIVE FindLeafForInsert(_, _, _)
FindLeafForInsert(cache, node_id, key) ==
    IF cache[node_id].node_type = INTERNAL_NODE
    THEN FindLeafForInsert(cache, GetChildForKey(cache[node_id], key), key)
    ELSE node_id

\* BPNode.split: the node as it is left, the node constructed, and the middle key
NodeSplit(n) ==
    LET mid == Len(n.keys) \div 2
    IN  IF n.node_type = LEAF_NODE
        THEN [left |-> [n EXCEPT !.keys = Slice(n.keys, 0, mid),
                                 !.children = Slice(n.children, 0, mid),
                                 !.next_leaf = Unnumbered],
              right |-> [BPNode(Unnumbered, LEAF_NODE) EXCEPT
                            !.keys = Slice(n.keys, mid, Len(n.keys)),
                            !.children = Slice(n.children, mid, Len(n.children)),
                            !.next_leaf = n.next_leaf],
              middle_key |-> n.keys[mid + 1]]
        ELSE [left |-> [n EXCEPT !.keys = Slice(n.keys, 0, mid),
                                 !.children = Slice(n.children, 0, mid + 1)],
              right |-> [BPNode(Unnumbered, INTERNAL_NODE) EXCEPT
                            !.keys = Slice(n.keys, mid + 1, Len(n.keys)),
                            !.children = Slice(n.children, mid + 1, Len(n.children))],
              middle_key |-> n.keys[mid + 1]]

\* _save_node
SaveNode(cache, n) ==
    [i \in (DOMAIN cache) \cup {n.node_id} |-> IF i = n.node_id THEN n ELSE cache[i]]

\* A tree is the record [cache, root, next]; the operations return the tree they leave.
CreateNewRoot(B, left_id, key, right_id) ==
    LET root_id == B.next
        new_root == [BPNode(root_id, INTERNAL_NODE) EXCEPT !.keys = <<key>>,
                                                          !.children = <<left_id, right_id>>]
        c1 == [B.cache EXCEPT ![left_id].parent = root_id, ![right_id].parent = root_id]
    IN  [cache |-> SaveNode(c1, new_root), root |-> root_id, next |-> B.next + 1]

RECURSIVE InsertIntoParent(_, _, _, _, _)
RECURSIVE SplitInternalNode(_, _, _)

InsertIntoParent(ord, B, left_id, key, right_id) ==
    IF B.cache[left_id].parent = Absent
    THEN CreateNewRoot(B, left_id, key, right_id)
    ELSE LET p == B.cache[left_id].parent
             c1 == [B.cache EXCEPT ![p] = InsertKeyChild(@, key, right_id),
                                   ![right_id].parent = p]
             B1 == [B EXCEPT !.cache = c1]
         IN  IF IsFull(c1[p], ord) THEN SplitInternalNode(ord, B1, p) ELSE B1

SplitInternalNode(ord, B, node_id) ==
    LET sp == NodeSplit(B.cache[node_id])
        new_id == B.next
        new_node == [sp.right EXCEPT !.node_id = new_id]
        moved == Range(new_node.children)
        c1 == [i \in DOMAIN B.cache |->
                  IF i \in moved THEN [B.cache[i] EXCEPT !.parent = new_id] ELSE B.cache[i]]
        c2 == SaveNode(SaveNode(c1, [sp.left EXCEPT !.parent = c1[node_id].parent]), new_node)
    IN  InsertIntoParent(ord, [cache |-> c2, root |-> B.root, next |-> B.next + 1],
                         node_id, sp.middle_key, new_id)

BPSplitLeaf(ord, B, leaf_id) ==
    LET sp == NodeSplit(B.cache[leaf_id])
        new_id == B.next
        new_leaf == [sp.right EXCEPT !.node_id = new_id]
        c1 == SaveNode(SaveNode(B.cache, sp.left), new_leaf)
    IN  InsertIntoParent(ord, [cache |-> c1, root |-> B.root, next |-> B.next + 1],
                         leaf_id, sp.middle_key, new_id)

\* insert: the tree after the call
BPInsertTree(ord, B, key_bytes, value) ==
    LET leaf_id == FindLeafForInsert(B.cache, B.root, key_bytes)
        c1 == [B.cache EXCEPT ![leaf_id] = InsertKeyValue(@, key_bytes, value)]
        B1 == [B EXCEPT !.cache = c1]
    IN  IF IsFull(c1[leaf_id], ord) THEN BPSplitLeaf(ord, B1, leaf_id) ELSE B1

\* search: the value returned, Absent for None
BPSearchTree(B, key_bytes) ==
    LET leaf == B.cache[FindLeafForInsert(B.cache, B.root, key_bytes)]
        p == FindKeyPosition(leaf.keys, key_bytes, 0)
    IN  IF p.found THEN leaf.children[p.pos + 1] ELSE Absent

\* range_search, consumed to its end: the values yielded and the error raised ("" if
\* none).  BPScanLeaf is the for loop over one leaf, BPScanChain the while.
RECURSIVE BPScanLeaf(_, _, _, _, _)
BPScanLeaf(n, i, start_bytes, end_bytes, res) ==
    IF i > Len(n.keys) THEN [res |-> res, done |-> FALSE]
    ELSE IF BytesLe(start_bytes, n.keys[i]) /\ BytesLt(n.keys[i], end_bytes)
    THEN BPScanLeaf(n, i + 1, start_bytes, end_bytes, Append(res, n.children[i]))
    ELSE IF BytesLe(end_bytes, n.keys[i]) THEN [res |-> res, done |-> TRUE]
    ELSE BPScanLeaf(n, i + 1, start_bytes, end_bytes, res)

RECURSIVE BPScanChain(_, _, _, _, _)
BPScanChain(cache, leaf_id, start_bytes, end_bytes, res) ==
    LET r == BPScanLeaf(cache[leaf_id], 1, start_bytes, end_bytes, res)
        next == cache[leaf_id].next_leaf
    IN  IF r.done \/ next = Absent THEN [list |-> r.res, err |-> ""]
        ELSE IF next \notin DOMAIN cache THEN [list |-> r.res, err |-> "ValueError"]
        ELSE BPScanChain(cache, next, start_bytes, end_bytes, r.res)

BPRangeSearchTree(B, start_bytes, end_bytes) ==
    BPScanChain(B.cache, FindLeafForInsert(B.cache, B.root, start_bytes),
                start_bytes, end_bytes, <<>>)

\* delete: the cache after the call and the value returned (_handle_underflow does
\* nothing)
BPDeleteTree(B, key_bytes) ==
    LET leaf_id == FindLeafForInsert(B.cache, B.root, key_bytes)
        p == FindKeyPosition(B.cache[leaf_id].keys, key_bytes, 0)
    IN  IF ~p.found THEN [cache |-> B.cache, ret |-> FALSE]
        ELSE [cache |-> [B.cache EXCEPT ![leaf_id].keys = ListPop(@, p.pos),
                                        ![leaf_id].children = ListPop(@, p.pos)],
              ret |-> TRUE]

BTree == [cache |-> node_cache, root |-> root_node_id, next |-> next_node_id]

NoBPCall == [op |-> "init", key |-> <<>>, key2 |-> <<>>, value |-> Absent, ok |-> FALSE,
             list |-> <<>>, err |-> ""]

BPInit ==
    /\ bp_order \in BPOrders
    /\ node_cache = [i \in {0} |-> BPNode(0, LEAF_NODE)]
    /\ root_node_id = 0
    /\ next_node_id = 1
    /\ bp_inserted = <<>>
    /\ bp_repeated = FALSE
    /\ bp_deleted = FALSE
    /\ bcalls = 0
    /\ bres = NoBPCall

BPIdle ==
    /\ bp_order = 4
    /\ node_cache = [i \in {0} |-> BPNode(0, LEAF_NODE)]
    /\ root_node_id = 0
    /\ next_node_id = 1
    /\ bp_inserted = <<>>
    /\ bp_repeated = FALSE
    /\ bp_deleted = FALSE
    /\ bcalls = 0
    /\ bres = NoBPCall

BPCalled(call) ==
    /\ bcalls < MaxBPCalls
    /\ bcalls' = bcalls + 1
    /\ bres' = call
    /\ UNCHANGED bp_order
    /\ UNCHANGED notBP

\* insert(key, value); the record pointer of key k is 10 + k
BPInsert(key) ==
    LET key_bytes == BPSerializeKey(key)
        value == 10 + key
        B1 == BPInsertTree(bp_order, BTree, key_bytes, value)
    IN  /\ node_cache' = B1.cache
        /\ root_node_id' = B1.root
        /\ next_node_id' = B1.next
        /\ bp_inserted' = [k \in (DOMAIN bp_inserted) \cup {key_bytes} |->
                              IF k = key_bytes THEN value ELSE bp_inserted[k]]
        /\ bp_repeated' = (bp_repeated \/ key_bytes \in DOMAIN bp_inserted)
        /\ UNCHANGED bp_deleted
        /\ BPCalled([NoBPCall EXCEPT !.op = "insert", !.key = key_bytes, !.value = value])

BPSearch(key) ==
    LET key_bytes == BPSerializeKey(key)
    IN  /\ BPCalled([NoBPCall EXCEPT !.op = "search", !.key = key_bytes,
                                     !.value = BPSearchTree(BTree, key_bytes)])
        /\ UNCHANGED <<node_cache, root_node_id, next_node_id, bp_inserted, bp_repeated,
                       bp_deleted>>

BPRangeSearch(start_key, end_key) ==
    LET start_bytes == BPSerializeKey(start_key)
        end_bytes == BPSerializeKey(end_key)
        r == BPRangeSearchTree(BTree, start_bytes, end_bytes)
    IN  /\ BPCalled([NoBPCall EXCEPT !.op = "range_search", !.key = start_bytes,
                                     !.key2 = end_bytes, !.list = r.list, !.err = r.err])
        /\ UNCHANGED <<node_cache, root_node_id, next_node_id, bp_inserted, bp_repeated,
                       bp_deleted>>

BPDelete(key) ==
    LET key_bytes == BPSerializeKey(key)
        d == BPDeleteTree(BTree, key_bytes)
    IN  /\ node_cache' = d.cache
        /\ bp_deleted' = TRUE
        /\ BPCalled([NoBPCall EXCEPT !.op = "delete", !.key = key_bytes, !.ok = d.ret])
        /\ UNCHANGED <<root_node_id, next_node_id, bp_inserted, bp_repeated>>

BPNext ==
    \/ \E key \in BPKeys : BPInsert(key)
    \/ \E key \in BPKeys : BPSearch(key)
    \/ \E r \in BPRanges : BPRangeSearch(r[1], r[2])
    \/ \E key \in BPKeys : BPDelete(key)

(***************************************************************************)
(* The calls on a Page held in memory.                                     *)
(***************************************************************************)
MaxPageCalls == 4   \* Page calls per behaviour

\* the pages constructed, and the arguments handed to the calls: sizes that fit, that do
\* not, and a negative one; writes and reads below the header's end, inside the data
\* region, over each other, up to the last byte and past it
NewPages == {Page(1, DATA, 100), Page(3, INDEX, 7)}
AllocSizes == {-30, 3, DATA_SIZE}
Writes == {<<HEADER_SIZE - 1, <<65>>>>, <<HEADER_SIZE, <<65, 0, 255>>>>,
           <<HEADER_SIZE + 1, <<9>>>>, <<PAGE_SIZE - 2, <<1, 2, 3>>>>,
           <<PAGE_SIZE - 1, <<8>>>>}
\* <<offset, size>> given to read_data; a size is a length, never negative
Reads == {<<HEADER_SIZE - 1, 1>>, <<HEADER_SIZE, 4>>, <<PAGE_SIZE - 3, 4>>,
          <<PAGE_SIZE - 3, 3>>}

NoPageCall == [op |-> "init", offset |-> 0, size |-> 0, data |-> <<>>, ok |-> FALSE,
               ret |-> 0, bytes |-> <<>>, image |-> ZeroBlock]

PageInit ==
    /\ page \in NewPages
    /\ allocs = <<>>
    /\ shadow = ZeroBlock
    /\ pcalls = 0
    /\ pres = NoPageCall

PageIdle ==
    /\ page = Page(0, FREE, 0)
    /\ allocs = <<>>
    /\ shadow = ZeroBlock
    /\ pcalls = 0
    /\ pres = NoPageCall

PageCalled(call) ==
    /\ pcalls < MaxPageCalls
    /\ pcalls' = pcalls + 1
    /\ pres' = call
    /\ UNCHANGED notPage

AllocateSpaceCall(size) ==
    /\ LET a == AllocateSpace(page, size)
       IN  /\ page' = a.page
           /\ allocs' = IF a.ok THEN Append(allocs, <<a.offset, size>>) ELSE allocs
           /\ PageCalled([NoPageCall EXCEPT !.op = "allocate_space", !.size = size,
                                            !.ok = a.ok, !.ret = a.offset])
    /\ UNCHANGED shadow

WriteDataCall(offset, data) ==
    /\ LET w == WriteData(page, offset, data)
           span == offset .. (offset + Len(data) - 1)
       IN  /\ page' = w.page
           /\ shadow' = IF w.ok
                         THEN [o \in (DOMAIN shadow) \cup span |->
                                  IF o \in span THEN data[o - offset + 1] ELSE shadow[o]]
                         ELSE shadow
           /\ PageCalled([NoPageCall EXCEPT !.op = "write_data", !.offset = offset,
                                            !.data = data, !.ok = w.ok])
    /\ UNCHANGED allocs

ReadDataCall(offset, size) ==
    /\ LET r == ReadData(page, offset, size)
       IN  PageCalled([NoPageCall EXCEPT !.op = "read_data", !.offset = offset,
                                        !.size = size, !.ok = r.ok, !.bytes = r.bytes])
    /\ UNCHANGED <<page, allocs, shadow>>

SerializeCall ==
    /\ LET s == Serialize(page)
       IN  /\ page' = s.page
           /\ PageCalled([NoPageCall EXCEPT !.op = "serialize", !.ok = s.ok,
                                            !.size = s.length, !.image = s.bytes])
    /\ UNCHANGED <<allocs, shadow>>

\* page = Page.deserialize(page.page_id, page.serialize())
ReloadCall ==
    /\ LET s == Serialize(page)
           d == Deserialize(page.page_id, s.bytes, s.length)
       IN  /\ page' = IF s.ok /\ d.ok THEN d.page ELSE s.page
           /\ PageCalled([NoPageCall EXCEPT !.op = "deserialize", !.ok = s.ok /\ d.ok,
                                            !.size = s.length, !.image = s.bytes])
    /\ UNCHANGED <<allocs, shadow>>

PageNext ==
    \/ \E size \in AllocSizes : AllocateSpaceCall(size)
    \/ \E w \in Writes : WriteDataCall(w[1], w[2])
    \/ \E r \in Reads : ReadDataCall(r[1], r[2])
    \/ SerializeCall
    \/ ReloadCall

(***************************************************************************)
(* The statements of the QueryExecutor, over its Catalog, the rows it      *)
(* keeps in memory and its IndexManager.  Column values are ints >= 0.     *)
(***************************************************************************)
MaxExecCalls == 4   \* statements per behaviour

Column(name, data_type, is_primary_key) ==
    [name |-> name, data_type |-> data_type, is_primary_key |-> is_primary_key]

\* the tables created: with a single-column key, a composite key, no key, and a key of a
\* type the catalog rejects
TableNames == {"t", "u"}
ColumnLists == {<<Column("id", "INTEGER", TRUE), Column("v", "INTEGER", FALSE)>>,
                <<Column("id", "INTEGER", TRUE), Column("v", "INTEGER", TRUE)>>,
                <<Column("id", "INTEGER", FALSE), Column("v", "INTEGER", FALSE)>>,
                <<Column("id", "TEXT", TRUE), Column("v", "INTEGER", FALSE)>>}
\* the values of INSERT, too few among them; the assignments of UPDATE; the WHERE clauses:
\* none, a plain value, an operator pair
InsertValues == {<<1, 1>>, <<2, 1>>, <<1>>}
NoWhere == <<>>
Plain(value) == [op |-> "plain", value |-> value]
Cond(op, value) == [op |-> op, value |-> value]
SetValues == {[c \in {"id"} |-> 2], [c \in {"v"} |-> 2]}
WhereClauses == {NoWhere, [c \in {"id"} |-> Plain(1)], [c \in {"v"} |-> Cond(">", 1)]}

\* TableSchema.__init__
TableSchema(table_name, columns, table_id) ==
    [table_name |-> table_name, table_id |-> table_id, columns |-> columns,
     primary_key |-> LET pk == SelectSeq(columns, LAMBDA c : c.is_primary_key)
                     IN  [i \in DOMAIN pk |-> pk[i].name]]

ColumnNames(schema) == {schema.columns[i].name : i \in DOMAIN schema.columns}
\* schema.column_index[name], 1-based
ColumnIndex(schema, name) == CHOOSE i \in DOMAIN schema.columns : schema.columns[i].name = name

\* IndexSchema.__init__, with the id Catalog.create_index assigns
IndexSchema(index_name, table_name, column_names, index_id) ==
    [index_name |-> index_name, table_name |-> table_name, column_names |-> column_names,
     is_unique |-> TRUE, index_id |-> index_id]

PkName(table_name) == "pk_" \o table_name

Catalog == [tables |-> tables, indexes |-> catalog_indexes, table_counter |-> table_counter,
            index_counter |-> catalog_index_counter]

\* Catalog._validate_table_creation: TRUE if it raises
ValidationRaises(table_name, columns) ==
    LET pk == SelectSeq(columns, LAMBDA c : c.is_primary_key)
    IN  \/ table_name = ""
        \/ columns = <<>>
        \/ \E i, j \in DOMAIN columns : i # j /\ columns[i].name = columns[j].name
        \/ Len(pk) = 1 /\ pk[1].data_type \in {"TEXT", "BLOB"}

\* Catalog.create_index: the catalog after the call and the error raised ("" if none)
CatalogCreateIndex(C, index_name, table_name, column_names) ==
    IF \/ index_name \in DOMAIN C.indexes
       \/ table_name \notin DOMAIN C.tables
       \/ \E i \in DOMAIN column_names : column_names[i] \notin ColumnNames(C.tables[table_name])
    THEN [catalog |-> C, err |-> "ValueError"]
    ELSE [catalog |-> [C EXCEPT !.indexes = [n \in (DOMAIN C.indexes) \cup {index_name} |->
                                               IF n = index_name
                                               THEN IndexSchema(index_name, table_name,
                                                                column_names, C.index_counter)
                                               ELSE C.indexes[n]],
                                !.index_counter = C.index_counter + 1],
          err |-> ""]

\* Catalog.create_table
CatalogCreateTable(C, table_name, columns) ==
    IF table_name \in DOMAIN C.tables \/ ValidationRaises(table_name, columns)
    THEN [catalog |-> C, err |-> "ValueError"]
    ELSE LET schema == TableSchema(table_name, columns, C.table_counter)
             C1 == [C EXCEPT !.tables = [n \in (DOMAIN C.tables) \cup {table_name} |->
                                           IF n = table_name THEN schema ELSE C.tables[n]],
                             !.table_counter = C.table_counter + 1]
         IN  IF schema.primary_key # <<>>
             THEN CatalogCreateIndex(C1, PkName(table_name), table_name, schema.primary_key)
             ELSE [catalog |-> C1, err |-> ""]

\* Catalog.get_table_indexes: the index names of the table, in the dict's order, which is
\* the order of the ids create_index gave them
RECURSIVE ByIndexId(_, _)
ByIndexId(ixs, names) ==
    IF names = {} THEN <<>>
    ELSE LET first == CHOOSE n \in names : \A o \in names : ixs[n].index_id <= ixs[o].index_id
         IN  <<first>> \o ByIndexId(ixs, names \ {first})

TableIndexes(C, table_name) ==
    ByIndexId(C.indexes, {n \in DOMAIN C.indexes : C.indexes[n].table_name = table_name})

\* "_".join(str(v) for the values of the indexed columns), as code points
RECURSIVE JoinParts(_, _, _)
JoinParts(schema, column_names, values) ==
    IF column_names = <<>> THEN <<>>
    ELSE Digits(values[ColumnIndex(schema, Head(column_names))])
            \o (IF Len(column_names) > 1 THEN <<95>> ELSE <<>>)
            \o JoinParts(schema, Tail(column_names), values)

\* the key _update_indexes_for_row hands to the index, as the tree serializes it
RowKey(schema, column_names, values) ==
    SerializeAnyKey(StrKey(JoinParts(schema, column_names, values)))

\* IndexManager.insert on the executor's manager
ManagerInsert(ixs, index_name, key_bytes, value) ==
    IF index_name \notin DOMAIN ixs THEN [indexes |-> ixs, err |-> "ValueError"]
    ELSE LET t == ixs[index_name]
             T1 == TreeInsert(t.order, TreeOf(t), key_bytes, value)
             k2v == [k \in (DOMAIN t.key_to_value) \cup {key_bytes} |->
                        IF k = key_bytes THEN value ELSE t.key_to_value[k]]
         IN  [indexes |-> [ixs EXCEPT ![index_name] =
                              [order |-> t.order, nodes |-> T1.nodes, root |-> T1.root,
                               key_to_value |-> k2v]],
              err |-> ""]

\* _update_indexes_for_row, over the indexes still to be updated
RECURSIVE UpdateIndexesForRow(_, _, _, _, _)
UpdateIndexesForRow(ixs, C, table_name, row, todo) ==
    IF todo = <<>> THEN [indexes |-> ixs, err |-> ""]
    ELSE LET index == C.indexes[Head(todo)]
             key == RowKey(C.tables[table_name], index.column_names, row.values)
             m == ManagerInsert(ixs, index.index_name, key, row.row_id)
         IN  IF m.err # "" THEN m
             ELSE UpdateIndexesForRow(m.indexes, C, table_name, row, Tail(todo))

\* _get_next_row_id
NextRowId(rows) ==
    IF rows = <<>> THEN 1
    ELSE 1 + CHOOSE m \in {rows[i].row_id : i \in DOMAIN rows} :
                 \A i \in DOMAIN rows : rows[i].row_id <= m

\* _store_row
StoreRow(rows, row) ==
    IF \E i \in DOMAIN rows : rows[i].row_id = row.row_id
    THEN LET i == CHOOSE j \in DOMAIN rows :
                     rows[j].row_id = row.row_id /\ \A k \in 1 .. j - 1 : rows[k].row_id # row.row_id
         IN  [rows EXCEPT ![i] = row]
    ELSE Append(rows, row)

\* one condition of _apply_where_clause; an operator it does not know lets the row pass
ConditionHolds(value, condition) ==
    CASE condition.op = "plain" -> value = condition.value
      [] condition.op = "=" -> value = condition.value
      [] condition.op = "!=" -> value # condition.value
      [] condition.op = ">" -> value > condition.value
      [] condition.op = "<" -> value < condition.value
      [] condition.op = ">=" -> value >= condition.value
      [] condition.op = "<=" -> value <= condition.value
      [] OTHER -> TRUE

RowMatches(schema, where_clause, row) ==
    \A c \in DOMAIN where_clause :
       /\ c \in ColumnNames(schema)
       /\ ConditionHolds(row.values[ColumnIndex(schema, c)], where_clause[c])

\* the rows a statement works on: all of them for an empty or absent WHERE clause
Selected(schema, where_clause, rows) ==
    IF where_clause = NoWhere THEN rows
    ELSE SelectSeq(rows, LAMBDA r : RowMatches(schema, where_clause, r))

NoStatement == [op |-> "init", table_name |-> "", success |-> FALSE, rows_affected |-> 0]

ExecInit ==
    /\ tables = <<>>
    /\ catalog_indexes = <<>>
    /\ table_counter = 1
    /\ catalog_index_counter = 1
    /\ index_manager = <<>>
    /\ table_data = [n \in TableNames |-> <<>>]
    /\ qcalls = 0
    /\ qres = NoStatement

Executed(op, table_name, success, rows_affected) ==
    /\ qcalls < MaxExecCalls
    /\ qcalls' = qcalls + 1
    /\ qres' = [op |-> op, table_name |-> table_name, success |-> success,
                rows_affected |-> rows_affected]
    /\ UNCHANGED notExec

\* execute(QueryType.CREATE_TABLE, ...)
ExecuteCreateTable(table_name, columns) ==
    LET c == CatalogCreateTable(Catalog, table_name, columns)
        m == IF c.err = "" /\ c.catalog.tables[table_name].primary_key # <<>>
             THEN ManagerCreate(index_manager, PkName(table_name))
             ELSE [indexes |-> index_manager, err |-> ""]
    IN  /\ tables' = c.catalog.tables
        /\ catalog_indexes' = c.catalog.indexes
        /\ table_counter' = c.catalog.table_counter
        /\ catalog_index_counter' = c.catalog.index_counter
        /\ index_manager' = m.indexes
        /\ UNCHANGED table_data
        /\ Executed("CREATE_TABLE", table_name, c.err = "" /\ m.err = "", 0)

\* execute(QueryType.INSERT, ...)
ExecuteInsert(table_name, values) ==
    IF table_name \notin DOMAIN tables \/ Len(values) # Len(tables[table_name].columns)
    THEN /\ UNCHANGED <<tables, catalog_indexes, table_counter, catalog_index_counter,
                        index_manager, table_data>>
         /\ Executed("INSERT", table_name, FALSE, 0)
    ELSE LET row == [values |-> values, row_id |-> NextRowId(table_data[table_name])]
             m == UpdateIndexesForRow(index_manager, Catalog, table_name, row,
                                      TableIndexes(Catalog, table_name))
         IN  /\ table_data' = [table_data EXCEPT ![table_name] = StoreRow(@, row)]
             /\ index_manager' = m.indexes
             /\ UNCHANGED <<tables, catalog_indexes, table_counter, catalog_index_counter>>
             /\ Executed("INSERT", table_name, m.err = "", IF m.err = "" THEN 1 ELSE 0)

\* execute(QueryType.UPDATE, ...)
ExecuteUpdate(table_name, set_values, where_clause) ==
    IF table_name \notin DOMAIN tables
    THEN /\ UNCHANGED <<tables, catalog_indexes, table_counter, catalog_index_counter,
                        index_manager, table_data>>
         /\ Executed("UPDATE", table_name, FALSE, 0)
    ELSE LET schema == tables[table_name]
             rows == table_data[table_name]
             hit == {i \in DOMAIN rows :
                        where_clause = NoWhere \/ RowMatches(schema, where_clause, rows[i])}
             assigned(vs) == [j \in DOMAIN vs |->
                                 IF schema.columns[j].name \in DOMAIN set_values
                                 THEN set_values[schema.columns[j].name]
                                 ELSE vs[j]]
         IN  /\ table_data' = [table_data EXCEPT ![table_name] =
                                  [i \in DOMAIN rows |->
                                      IF i \in hit
                                      THEN [rows[i] EXCEPT !.values = assigned(@)]
                                      ELSE rows[i]]]
             /\ UNCHANGED <<tables, catalog_indexes, table_counter, catalog_index_counter,
                            index_manager>>
             /\ Executed("UPDATE", table_name, TRUE, Cardinality(hit))

\* execute(QueryType.DELETE, ...)
ExecuteDelete(table_name, where_clause) ==
    IF table_name \notin DOMAIN tables
    THEN /\ UNCHANGED <<tables, catalog_indexes, table_counter, catalog_index_counter,
                        index_manager, table_data>>
         /\ Executed("DELETE", table_name, FALSE, 0)
    ELSE LET rows == table_data[table_name]
             gone == Selected(tables[table_name], where_clause, rows)
         IN  /\ table_data' = [table_data EXCEPT ![table_name] =
                                  SelectSeq(rows, LAMBDA r :
                                     \A i \in DOMAIN gone : gone[i].row_id # r.row_id)]
             /\ UNCHANGED <<tables, catalog_indexes, table_counter, catalog_index_counter,
                            index_manager>>
             /\ Executed("DELETE", table_name, TRUE, Len(gone))

ExecNext ==
    \/ \E n \in TableNames, columns \in ColumnLists : ExecuteCreateTable(n, columns)
    \/ \E n \in TableNames, values \in InsertValues : ExecuteInsert(n, values)
    \/ \E n \in TableNames, s \in SetValues, w \in WhereClauses : ExecuteUpdate(n, s, w)
    \/ \E n \in TableNames, w \in WhereClauses : ExecuteDelete(n, w)

StorageInit == StorInit /\ TreeIdle /\ PageIdle /\ IndexInit /\ BPIdle /\ ExecInit
StorageSpec == StorageInit /\ [][StorageNext]_vars

TreeSpecInit == TreeInit /\ StorInit /\ PageIdle /\ IndexInit /\ BPIdle /\ ExecInit
TreeSpec == TreeSpecInit /\ [][TreeNext]_vars

KeySpecInit == TreeIdle /\ StorInit /\ PageIdle /\ IndexInit /\ BPIdle /\ ExecInit
KeySpec == KeySpecInit /\ [][KeyNext]_vars

PageSpecInit == PageInit /\ TreeIdle /\ StorInit /\ IndexInit /\ BPIdle /\ ExecInit
PageSpec == PageSpecInit /\ [][PageNext]_vars

IndexSpecInit == IndexInit /\ TreeIdle /\ StorInit /\ PageIdle /\ BPIdle /\ ExecInit

GrowSpecInit == GrowInit /\ StorInit /\ PageIdle /\ IndexInit /\ BPIdle /\ ExecInit
GrowSpec == GrowSpecInit /\ [][GrowNext]_vars

BPSpecInit == BPInit /\ TreeIdle /\ StorInit /\ PageIdle /\ IndexInit /\ ExecInit
BPSpec == BPSpecInit /\ [][BPNext]_vars

ExecSpecInit == ExecInit /\ TreeIdle /\ StorInit /\ PageIdle /\ IndexInit /\ BPIdle
ExecSpec == ExecSpecInit /\ [][ExecNext]_vars
IndexSpec == IndexSpecInit /\ [][IndexNext]_vars

TreeP == [nodes |-> nodes', root |-> root']

InRange(es, start_bytes, end_bytes) ==
    LET keep == {i \in DOMAIN es : BytesLe(start_bytes, es[i][1]) /\ BytesLt(es[i][1], end_bytes)}
    IN  [x \in {es[i] : i \in keep} |-> Cardinality({i \in keep : es[i] = x})]

BagOf(s) == [x \in Range(s) |-> Count(s, x)]

InternalNodes == {n \in NodesUnder(nodes, root) : ~nodes[n].is_leaf}

(***************************************************************************)
(* C1. After any sequence of inserts, search(k) returns a value that was   *)
(* inserted for k for every inserted key k, and None for every key that    *)
(* was never inserted.                                                     *)
(***************************************************************************)
Claim_C1 ==
    ~deleted =>
        \A kb \in ProbeKeys :
            IF \E v \in Values : <<kb, v>> \in inserted
            THEN <<kb, TreeSearch(Tree, kb)>> \in inserted
            ELSE TreeSearch(Tree, kb) = None

(***************************************************************************)
(* C2. After any sequence of inserts and deletes, range_search(start, end) *)
(* returns exactly the entries stored in the tree whose key k satisfies    *)
(* start <= k < end, each exactly once, in ascending key order.            *)
(***************************************************************************)
Claim_C2 ==
    \A start_bytes \in ProbeKeys, end_bytes \in ProbeKeys :
        LET es == RangeEntries(Tree, start_bytes, end_bytes)
        IN  /\ BagOf(es) = InRange(StoredEntries(Tree), start_bytes, end_bytes)
            /\ NonDecreasing([i \in 1 .. Len(es) |-> es[i][1]])

(***************************************************************************)
(* C3. delete(key) returns True whenever at least one entry with that key  *)
(* is stored; it removes exactly one entry of that key, and a subsequent   *)
(* search(key) returns None if no entry with that key remains and the      *)
(* value of a remaining entry otherwise.                                   *)
(***************************************************************************)
DeleteStep(kb) == result'.op = "delete" /\ result'.key = kb /\ nops' = nops + 1

Claim_C3 ==
    [][\A kb \in SerKeys :
          (DeleteStep(kb) /\ StoredCount(Tree, kb) >= 1) =>
              /\ result'.ok
              /\ StoredCount(TreeP, kb) = StoredCount(Tree, kb) - 1
              /\ \A k2 \in SerKeys \ {kb} : StoredCount(TreeP, k2) = StoredCount(Tree, k2)
              /\ IF StoredCount(TreeP, kb) = 0
                 THEN TreeSearch(TreeP, kb) = None
                 ELSE <<kb, TreeSearch(TreeP, kb)>> \in Range(StoredEntries(TreeP))]_vars

(***************************************************************************)
(* C4. delete(key) on a key with no stored entry returns False and leaves  *)
(* the tree unchanged: the root, every node's keys, values, children and   *)
(* next_leaf, and the result of every search and range_search.             *)
(***************************************************************************)
Thm_C4 ==
    [][\A kb \in SerKeys :
          (DeleteStep(kb) /\ StoredCount(Tree, kb) = 0) =>
              /\ ~result'.ok
              /\ root' = root
              /\ nodes' = nodes
              /\ \A k2 \in ProbeKeys : TreeSearch(TreeP, k2) = TreeSearch(Tree, k2)
              /\ \A k2 \in ProbeKeys, k3 \in ProbeKeys :
                    RangeSearch(TreeP, k2, k3) = RangeSearch(Tree, k2, k3)]_vars

\* delete of an absent key has just returned on a tree that has split and holds entries
Witness_C4 ==
    /\ result.op = "delete"
    /\ ~result.ok
    /\ StoredCount(Tree, result.key) = 0
    /\ ~nodes[root].is_leaf
    /\ StoredEntries(Tree) # <<>>

(***************************************************************************)
(* C5. Following next_leaf from the leftmost leaf visits every leaf of the *)
(* tree exactly once and terminates, and the concatenation of the visited  *)
(* leaves' keys is in non-decreasing byte order.                           *)
(***************************************************************************)
ChainVisitsEveryLeafOnce ==
    LET c == LeafChain(Tree)
    IN  /\ Len(c) <= Len(nodes)
        /\ BagOf(c) = BagOf(LeavesUnder(nodes, root))
        /\ \A i \in DOMAIN c : Count(c, c[i]) = 1

Claim_C5 == ChainVisitsEveryLeafOnce /\ NonDecreasing(ChainKeys(Tree))

(***************************************************************************)
(* C6. With order >= 3, after every insert or delete each node holds at    *)
(* most order - 1 keys, each leaf has one value per key, each internal     *)
(* node has len(keys) + 1 children; a leaf is split exactly when an insert *)
(* makes it hold order keys.                                               *)
(***************************************************************************)
NodeShape ==
    \A n \in NodesUnder(nodes, root) :
        /\ Len(nodes[n].keys) <= order - 1
        /\ nodes[n].is_leaf => Len(nodes[n].values) = Len(nodes[n].keys)
        /\ ~nodes[n].is_leaf => Len(nodes[n].children) = Len(nodes[n].keys) + 1

NewLeafCreated == \E n \in (Len(nodes) + 1) .. Len(nodes') : nodes'[n].is_leaf

SplitExactlyOnOverflow ==
    NewLeafCreated <=>
        /\ result'.op = "insert"
        /\ nops' = nops + 1
        /\ Len(nodes[FindLeaf(nodes, root, result'.key)].keys) + 1 = order

Thm_C6 == [](order >= 3 => NodeShape) /\ [][SplitExactlyOnOverflow]_vars

\* an insert has just split an internal node below or at the old root
Witness_C6 ==
    /\ result.op = "insert"
    /\ Cardinality(InternalNodes) >= 3

(***************************************************************************)
(* C7. The keys within every node (leaf and internal) are strictly         *)
(* increasing in byte-lexicographic order.                                 *)
(***************************************************************************)
Claim_C7 == \A n \in NodesUnder(nodes, root) : StrictlyIncreasing(nodes[n].keys)

\* C7 as amended: non-decreasing in every node; strictly increasing as long as no
\* insert was given a key that already had an entry in the tree
Thm_C7 ==
    /\ \A n \in NodesUnder(nodes, root) : NonDecreasing(nodes[n].keys)
    /\ ~dup_seen => Claim_C7

\* a leaf and an internal node each hold the same key twice
Witness_C7 ==
    /\ \E n \in NodesUnder(nodes, root) :
          nodes[n].is_leaf /\ ~StrictlyIncreasing(nodes[n].keys)
    /\ \E n \in InternalNodes : ~StrictlyIncreasing(nodes[n].keys)

\* a tree without duplicate inserts has split
Witness_C7_distinct == ~dup_seen /\ ~nodes[root].is_leaf

(***************************************************************************)
(* C8. On an open StorageManager, write_page(p) with p.page_id >= db_size  *)
(* raises db_size to exactly p.page_id + 1, fills every new slot below     *)
(* p.page_id with a Free page, and read_page(p.page_id) then returns a     *)
(* page with p's page_type, table_id, free-space offsets and data bytes;   *)
(* write_page with p.page_id < db_size leaves db_size unchanged.           *)
(***************************************************************************)
WriteStep == sres'.op = "write_page" /\ ncalls' = ncalls + 1

IsFreePage(blocks, h, i) ==
    LET r == ReadPage(blocks, h, TRUE, i)
    IN  /\ r.err = ""
        /\ r.page.page_id = i
        /\ r.page.page_type = FREE
        /\ r.page.data = ZeroBlock

AllocStep == sres'.op = "allocate_page" /\ ncalls' = ncalls + 1

AllocateReturnsNextId ==
    (AllocStep /\ is_open) =>
        /\ sres'.err = ""
        /\ header'.db_size = header.db_size + 1
        /\ sres'.page.page_id = header.db_size
        /\ sres'.page.page_type = sres'.arg.page_type
        /\ sres'.page.table_id = sres'.arg.table_id
        /\ ReadPage(FileOf(disk', orphan'), header', is_open', header.db_size)
               = [err |-> "", page |-> sres'.page]

AllocatedIdsIncrease ==
    \A i \in DOMAIN alloc_ids : \A j \in DOMAIN alloc_ids :
        i < j => alloc_ids[i] < alloc_ids[j]

Claim_C9 == [][AllocateReturnsNextId]_vars /\ []AllocatedIdsIncrease

(***************************************************************************)
(* C10. After every completed operation on an open StorageManager the      *)
(* file's length equals header.db_size * 4096 and the db_size stored in    *)
(* the on-disk header equals the in-memory header.db_size; db_size never   *)
(* decreases, and _extend_file(n) with n <= db_size changes neither the    *)
(* file nor db_size.                                                       *)
(***************************************************************************)
LengthMatchesDbSize == is_open => FileLength(FileBlocks) = header.db_size * PAGE_SIZE

DiskHeaderMatchesDbSize ==
    is_open => BytesAt(FileBlocks[1], 8, 8) = LittleEndian(header.db_size, 8)

DbSizeNeverDecreases == (is_open /\ is_open') => header'.db_size >= header.db_size

ExtendBelowIsNoOp ==
    (sres'.op = "_extend_file" /\ ncalls' = ncalls + 1 /\ sres'.page_id <= header.db_size)
        => (disk' = disk /\ orphan' = orphan /\ header' = header)

Claim_C10 ==
    /\ [](LengthMatchesDbSize /\ DiskHeaderMatchesDbSize)
    /\ [][DbSizeNeverDecreases /\ ExtendBelowIsNoOp]_vars

(***************************************************************************)
(* C11. create_database(overwrite=False) on a path where a file exists     *)
(* fails with an already-exists error and leaves the file unchanged;       *)
(* otherwise it produces a file of exactly 10 slots whose header has       *)
(* db_size = 10 and whose slots 1..9 each hold a Free page with page_id    *)
(* equal to the slot number, and leaves the manager not open; open()       *)
(* afterwards reports db_size = 10.                                        *)
(***************************************************************************)
CreateStep == sres'.op = "create_database" /\ ncalls' = ncalls + 1

FreshFile(blocks) ==
    /\ Len(blocks) = InitialPages
    /\ LET h == HeaderDeserialize(blocks[1], PAGE_SIZE)
       IN  h.ok /\ h.header.db_size = InitialPages
    /\ \A i \in 1 .. InitialPages - 1 :
          LET r == Deserialize(i, blocks[i + 1], PAGE_SIZE)
          IN  r.ok /\ r.page.page_type = FREE /\ r.page.page_id = i

CreateFailsOnExisting ==
    (CreateStep /\ disk.exists /\ ~sres'.overwrite) =>
        sres'.err = "FileExistsError" /\ disk' = disk

CreateWritesFreshFile ==
    (CreateStep /\ ~(disk.exists /\ ~sres'.overwrite)) =>
        sres'.err = "" /\ disk'.exists /\ FreshFile(disk'.blocks)

CreateLeavesNotOpen ==
    (CreateStep /\ ~(disk.exists /\ ~sres'.overwrite)) => ~is_open'

OpenAfterCreate ==
    (sres.op = "create_database" /\ sres.err = "" /\ sres'.op = "open"
         /\ ncalls' = ncalls + 1) =>
        sres'.err = "" /\ is_open' /\ header'.db_size = InitialPages

Claim_C11 ==
    [][CreateFailsOnExisting /\ CreateWritesFreshFile /\ CreateLeavesNotOpen
           /\ OpenAfterCreate]_vars

\* C11 without the part the code breaks
CreateOtherwiseAsClaimed ==
    [][CreateFailsOnExisting /\ CreateWritesFreshFile /\ OpenAfterCreate]_vars

(***************************************************************************)
(* C12. For every page state reachable from a newly constructed Page       *)
(* through allocate_space and write_data calls, deserialize(id,            *)
(* serialize()) yields a page with the same page_id, page_type, table_id,  *)
(* free_space_start, free_space_end and lsn, and read_data on it returns   *)
(* the same bytes as on the original for every valid offset and length.    *)
(***************************************************************************)
ProbeReads ==
    {<<o, n>> : o \in {HEADER_SIZE, HEADER_SIZE + 1, PAGE_SIZE - 3, PAGE_SIZE - 1},
                n \in 0 .. 4}

RoundTrip(p) ==
    LET s == Serialize(p)
        d == Deserialize(p.page_id, s.bytes, s.length)
    IN  /\ s.ok
        /\ d.ok
        /\ d.page.page_id = p.page_id
        /\ d.page.page_type = p.page_type
        /\ d.page.table_id = p.table_id
        /\ d.page.free_space_start = p.free_space_start
        /\ d.page.free_space_end = p.free_space_end
        /\ d.page.lsn = p.lsn
        /\ d.page.data = p.data
        /\ \A r \in ProbeReads : ReadData(d.page, r[1], r[2]) = ReadData(p, r[1], r[2])

Claim_C12 == RoundTrip(page)

\* C12 for the pages whose header fields fit their packed widths
RoundTripWherePackable == CanPack(page) => RoundTrip(page)

(***************************************************************************)
(* C13. Page.serialize is deterministic: two serialize() calls with no     *)
(* mutation in between return the same byte string of exactly 4096 bytes,  *)
(* and serializing a page obtained by deserializing serialize()'s output   *)
(* returns that same byte string again.                                    *)
(***************************************************************************)
SerializeTwice(p) ==
    LET s1 == Serialize(p)
        s2 == Serialize(s1.page)
    IN  s1.ok => /\ s1.length = PAGE_SIZE
                 /\ s2.ok
                 /\ s2.length = PAGE_SIZE
                 /\ s2.bytes = s1.bytes

SerializeReloaded(p) ==
    LET s1 == Serialize(p)
        d == Deserialize(p.page_id, s1.bytes, s1.length)
        s3 == Serialize(d.page)
    IN  s1.ok => d.ok /\ s3.ok /\ s3.bytes = s1.bytes

Claim_C13 == SerializeTwice(page) /\ SerializeReloaded(page)

(***************************************************************************)
(* C14. On every call of Page.serialize (the first and every later one,    *)
(* also on a page obtained from deserialize), the checksum written into    *)
(* the output header and stored in page.checksum equals the XOR of the     *)
(* little-endian 32-bit words of the 29-byte header packed with its        *)
(* checksum field set to zero, concatenated with the data region.          *)
(***************************************************************************)
ChecksumOverZeroedHeader(p) ==
    CalculateChecksum(Sparse(PackHeader(p, ZeroWord), 0) @@ DataBytes(p),
                      HEADER_SIZE + DATA_SIZE)

SerializeChecksum(p) ==
    LET s == Serialize(p)
    IN  s.ok => /\ s.page.checksum = ChecksumOverZeroedHeader(p)
                /\ BytesAt(s.bytes, 25, 4) = ChecksumOverZeroedHeader(p)

Claim_C14 == SerializeChecksum(page)

\* C14 on the first serialize of a page constructed in memory
FirstSerializeChecksum == page.checksum = ZeroWord => SerializeChecksum(page)

(***************************************************************************)
(* C15. allocate_space(size) succeeds exactly when free_space_start + size *)
(* <= free_space_end; on success it returns the previous free_space_start, *)
(* advances free_space_start by size and marks the page dirty; on failure  *)
(* it returns None and changes nothing.  After allocate_space(4067) on a   *)
(* fresh page every later allocate_space(n), n >= 1, returns None; the     *)
(* ranges of successful allocations of positive size never overlap.        *)
(***************************************************************************)
PageAllocStep == pres'.op = "allocate_space" /\ pcalls' = pcalls + 1

AllocateAsSpecified ==
    PageAllocStep =>
        IF page.free_space_start + pres'.size <= page.free_space_end
        THEN /\ pres'.ok
             /\ pres'.ret = page.free_space_start
             /\ page' = [page EXCEPT !.free_space_start = @ + pres'.size, !.dirty = TRUE]
        ELSE /\ ~pres'.ok
             /\ page' = page

FullThenNone ==
    \A i \in DOMAIN allocs : \A j \in DOMAIN allocs :
        (i < j /\ allocs[i] = <<HEADER_SIZE, DATA_SIZE>>) => allocs[j][2] < 1

NoOverlap ==
    \A i \in DOMAIN allocs : \A j \in DOMAIN allocs :
        (i < j /\ allocs[i][2] > 0 /\ allocs[j][2] > 0) =>
            \/ allocs[i][1] + allocs[i][2] <= allocs[j][1]
            \/ allocs[j][1] + allocs[j][2] <= allocs[i][1]

Claim_C15 == [][AllocateAsSpecified]_vars /\ [](FullThenNone /\ NoOverlap)

\* C15's single-call part, and its history part while no size was negative
AllocateStepAsClaimed == [][AllocateAsSpecified]_vars

DisjointWithoutNegativeSizes ==
    (\A i \in DOMAIN allocs : allocs[i][2] >= 0) => (FullThenNone /\ NoOverlap)

(***************************************************************************)
(* C16. For a Page created in memory, after any sequence of                *)
(* allocate_space, write_data, read_data and serialize calls with any      *)
(* integer size arguments, 29 <= free_space_start <= free_space_end <=     *)
(* 4096 holds and the data region stays exactly 4067 bytes long.           *)
(***************************************************************************)
Claim_C16 ==
    /\ HEADER_SIZE <= page.free_space_start
    /\ page.free_space_start <= page.free_space_end
    /\ page.free_space_end <= PAGE_SIZE
    /\ DOMAIN page.data \subseteq 0 .. DATA_SIZE - 1

\* C16 while no allocate_space was given a negative size
BoundsWithoutNegativeSizes == (\A i \in DOMAIN allocs : allocs[i][2] >= 0) => Claim_C16

(***************************************************************************)
(* C17. write_data(offset, data) and read_data(offset, size) fail with an  *)
(* out-of-bounds error exactly when offset < 29 or offset + length > 4096; *)
(* a failing write_data leaves the data region and the dirty flag          *)
(* unchanged; a successful write_data changes only the bytes in [offset,   *)
(* offset + len(data)) and sets dirty; read_data never changes the page    *)
(* and returns the bytes last written at those offsets (zero where never   *)
(* written).                                                               *)
(***************************************************************************)
PageWriteStep == pres'.op = "write_data" /\ pcalls' = pcalls + 1
PageReadStep == pres'.op = "read_data" /\ pcalls' = pcalls + 1

OutOfBounds(offset, length) == offset < 29 \/ offset + length > 4096

\* the byte of the page at a page offset behind the header
DataByte(p, q) == ByteAt(p.data, q - HEADER_SIZE)

LastWritten(offset, size) ==
    [i \in 1 .. size |-> IF offset + i - 1 \in DOMAIN shadow THEN shadow[offset + i - 1]
                         ELSE 0]

WriteDataAsSpecified ==
    PageWriteStep =>
        LET o == pres'.offset
            bs == pres'.data
            span == o .. (o + Len(bs) - 1)
            touched == {q + HEADER_SIZE : q \in (DOMAIN page.data) \cup (DOMAIN page'.data)}
        IN  IF OutOfBounds(o, Len(bs))
            THEN ~pres'.ok /\ page' = page
            ELSE /\ pres'.ok
                 /\ page'.dirty
                 /\ [page' EXCEPT !.data = page.data, !.dirty = page.dirty] = page
                 /\ DOMAIN page'.data \subseteq 0 .. DATA_SIZE - 1
                 /\ \A q \in touched \cup span :
                        DataByte(page', q) = IF q \in span THEN bs[q - o + 1]
                                             ELSE DataByte(page, q)

ReadDataAsSpecified ==
    PageReadStep =>
        /\ page' = page
        /\ IF OutOfBounds(pres'.offset, pres'.size)
           THEN ~pres'.ok
           ELSE pres'.ok /\ pres'.bytes = LastWritten(pres'.offset, pres'.size)

ReadsReturnLastWritten ==
    \A r \in ProbeReads :
        LET got == ReadData(page, r[1], r[2])
        IN  IF OutOfBounds(r[1], r[2]) THEN ~got.ok
            ELSE got.ok /\ got.bytes = LastWritten(r[1], r[2])

Thm_C17 ==
    /\ [][WriteDataAsSpecified /\ ReadDataAsSpecified]_vars
    /\ []ReadsReturnLastWritten

\* read_data has just returned four bytes of two overlapping writes and one byte never
\* written
Witness_C17 ==
    /\ pres.op = "read_data"
    /\ pres.ok
    /\ pres.offset = HEADER_SIZE
    /\ pres.bytes = <<65, 9, 255, 0>>

\* a write_data and a read_data past the page's end have failed
Witness_C17_fail ==
    /\ pres.op = "read_data"
    /\ ~pres.ok
    /\ pres.offset + pres.size > PAGE_SIZE
    /\ shadow # ZeroBlock

(***************************************************************************)
(* C18. An integer key n (0 <= n < 2^64) is serialized to its 8-byte       *)
(* big-endian encoding, so a < b exactly when serialize(a) < serialize(b)  *)
(* as byte strings; consequently range_search over integer keys returns    *)
(* values in ascending numeric key order.                                  *)
(***************************************************************************)
\* integers on both sides of the byte boundaries, up to the largest one at hand
KeySamples == {0, 1, 2, 255, 256, 257, 65535, 65536, 65537, 16777215, 16777216,
               2147483647}

\* struct.unpack(">Q", bs)
RECURSIVE FromBigEndian(_)
FromBigEndian(bs) ==
    IF bs = <<>> THEN 0 ELSE bs[Len(bs)] + 256 * FromBigEndian(SubSeq(bs, 1, Len(bs) - 1))

ByteOrderIsNumericOrder ==
    \A a \in KeySamples \cup KeyInputs : \A b \in KeySamples \cup KeyInputs :
        /\ Len(SerializeKey(a)) = 8
        /\ FromBigEndian(SerializeKey(a)) = a
        /\ (a < b) <=> BytesLt(SerializeKey(a), SerializeKey(b))

RangeInNumericOrder ==
    \A start_key \in 0 .. MaxKey + 1 : \A end_key \in 0 .. MaxKey + 1 :
        LET es == RangeEntries(Tree, SerializeKey(start_key), SerializeKey(end_key))
        IN  \A i \in 1 .. Len(es) - 1 :
                FromBigEndian(es[i][1]) <= FromBigEndian(es[i + 1][1])

Claim_C18 == ByteOrderIsNumericOrder /\ RangeInNumericOrder

\* C18 while no insert was given a key that already had an entry
RangeInNumericOrderWithoutDuplicates == ~dup_seen => RangeInNumericOrder

(***************************************************************************)
(* C19. The key serialization used by insert/search/delete/range_search is *)
(* the function of the key's type given in the spec: an int becomes its    *)
(* 8 big-endian bytes, a str its UTF-8 encoding, a raw bytes key is used   *)
(* unchanged as the tree key, and a key of any other type (a float) is     *)
(* rejected with an unsupported-key-type error without inserting anything. *)
(***************************************************************************)
KeyStep == nops' = nops + 1 /\ "given" \in DOMAIN result'

\* the tree key the spec gives a key of a supported type
SpecifiedKey(key) ==
    IF key.type = "int" THEN BigEndian(key.val, 8)
    ELSE IF key.type = "str" THEN Utf8(key.val)
    ELSE key.val

KeyUsedAsSpecified(key) ==
    /\ result'.err = ""
    /\ result'.key = SpecifiedKey(key)
    /\ result'.op = "insert" =>
           StoredCount(TreeP, SpecifiedKey(key)) = StoredCount(Tree, SpecifiedKey(key)) + 1

KeyRejected ==
    /\ result'.err = "UnsupportedKeyType"
    /\ nodes' = nodes
    /\ root' = root
    /\ key_to_value' = key_to_value

Claim_C19 ==
    [][KeyStep =>
          IF result'.given.type \in {"int", "str", "bytes"}
          THEN KeyUsedAsSpecified(result'.given)
          ELSE KeyRejected]_vars

\* C19 for int and str keys
IntAndStrKeysAsSpecified ==
    [][(KeyStep /\ result'.given.type \in {"int", "str"}) =>
          KeyUsedAsSpecified(result'.given)]_vars

(***************************************************************************)
(* C20. IndexManager: create_index(name) fails exactly when name is        *)
(* registered; drop_index, insert, search, delete and range_search fail    *)
(* exactly when name is not registered; a failing call leaves the set of   *)
(* registered names and every registered tree as they were (a failed       *)
(* create_index does not replace the tree); a non-failing insert, search,  *)
(* delete or range_search does and returns what the named tree's own       *)
(* operation does and returns, and touches no other tree.                  *)
(***************************************************************************)
IndexStep == icalls' = icalls + 1

FailsExactlyWhen ==
    LET registered == ires'.index_name \in DOMAIN indexes
    IN  IF ires'.op = "create_index" THEN (ires'.err # "") <=> registered
        ELSE (ires'.err # "") <=> ~registered

FailureChangesNothing == ires'.err # "" => indexes' = indexes

\* what the named tree's own operation gives for the arguments of the call
Delegates ==
    LET c == ires'
        t == indexes[c.index_name]
        others == \A n \in (DOMAIN indexes) \ {c.index_name} : indexes'[n] = indexes[n]
    IN  (c.err = "" /\ c.op \in {"insert", "search", "delete", "range_search"}) =>
           /\ DOMAIN indexes' = DOMAIN indexes
           /\ others
           /\ c.op = "insert" =>
                  /\ c.ret = None
                  /\ TreeOf(indexes'[c.index_name]) =
                         TreeInsert(4, TreeOf(t), c.key, c.value)
                  /\ indexes'[c.index_name].key_to_value[c.key] = c.value
           /\ c.op = "search" =>
                  /\ c.ret = TreeSearch(TreeOf(t), c.key)
                  /\ indexes' = indexes
           /\ c.op = "delete" =>
                  /\ c.ok = TreeDelete(TreeOf(t), t.key_to_value, c.key).ret
                  /\ indexes'[c.index_name].nodes =
                         TreeDelete(TreeOf(t), t.key_to_value, c.key).nodes
           /\ c.op = "range_search" =>
                  /\ c.list = RangeSearch(TreeOf(t), c.key, c.key2)
                  /\ indexes' = indexes

RegistryAsSpecified ==
    LET c == ires'
    IN  c.err = "" =>
           /\ c.op = "create_index" =>
                  /\ DOMAIN indexes' = (DOMAIN indexes) \cup {c.index_name}
                  /\ indexes'[c.index_name] = NewTree
                  /\ \A n \in DOMAIN indexes : indexes'[n] = indexes[n]
           /\ c.op = "drop_index" =>
                  /\ DOMAIN indexes' = (DOMAIN indexes) \ {c.index_name}
                  /\ \A n \in DOMAIN indexes' : indexes'[n] = indexes[n]

Thm_C20 ==
    [][IndexStep => /\ FailsExactlyWhen
                    /\ FailureChangesNothing
                    /\ Delegates
                    /\ RegistryAsSpecified]_vars

\* a create_index has failed on a name whose tree holds entries, and the tree still
\* holds them
Witness_C20 ==
    /\ ires.op = "create_index"
    /\ ires.err # ""
    /\ ires.index_name \in DOMAIN indexes
    /\ indexes[ires.index_name].nodes[indexes[ires.index_name].root].keys # <<>>

\* a call on a name that is not registered has failed while another tree holds entries
Witness_C20_absent ==
    /\ ires.op \in {"drop_index", "insert", "search", "delete", "range_search"}
    /\ ires.err # ""
    /\ \E n \in DOMAIN indexes : indexes[n].nodes[indexes[n].root].keys # <<>>

\* a delete through the manager has returned True
Witness_C20_delegated == ires.op = "delete" /\ ires.err = "" /\ ires.ok

(***************************************************************************)
(* C21. The indexes of an IndexManager are independent: an insert or a     *)
(* delete on index A, and creating or dropping A, leaves every other       *)
(* registered index B registered and changes no result of search or        *)
(* range_search on B; an index created under a name that was dropped       *)
(* before starts empty.                                                    *)
(***************************************************************************)
IndexProbeRanges == {<<SerializeKey(r[1]), SerializeKey(r[2])>> : r \in IndexRanges}
                   \cup {<<SerializeKey(0), SerializeKey(3)>>}

SameAnswers(t, u) ==
    /\ \A k \in ProbeKeys : TreeSearch(TreeOf(t), k) = TreeSearch(TreeOf(u), k)
    /\ \A r \in IndexProbeRanges :
           RangeSearch(TreeOf(t), r[1], r[2]) = RangeSearch(TreeOf(u), r[1], r[2])

StartsEmpty(t) ==
    /\ \A k \in ProbeKeys : TreeSearch(TreeOf(t), k) = None
    /\ \A r \in IndexProbeRanges : RangeSearch(TreeOf(t), r[1], r[2]) = <<>>
    /\ t.key_to_value = <<>>

OthersUntouched ==
    ires'.op \in {"insert", "delete", "create_index", "drop_index"} =>
       \A B \in (DOMAIN indexes) \ {ires'.index_name} :
          /\ B \in DOMAIN indexes'
          /\ SameAnswers(indexes[B], indexes'[B])

CreatedEmpty ==
    (ires'.op = "create_index" /\ ires'.err = "") => StartsEmpty(indexes'[ires'.index_name])

Thm_C21 == [][IndexStep => (OthersUntouched /\ CreatedEmpty)]_vars

\* an index has been created under a name whose tree was dropped with entries, while
\* another index holds entries
Witness_C21 ==
    /\ ires.op = "create_index"
    /\ ires.err = ""
    /\ ires.index_name \in dropped
    /\ \E B \in (DOMAIN indexes) \ {ires.index_name} : HoldsEntries(indexes[B])

\* an insert on one index has returned while another index holds different entries
Witness_C21_insert ==
    /\ ires.op = "insert"
    /\ ires.err = ""
    /\ \E B \in (DOMAIN indexes) \ {ires.index_name} :
          /\ HoldsEntries(indexes[B])
          /\ ~SameAnswers(indexes[B], indexes[ires.index_name])

(***************************************************************************)
(* C22. When an insert makes a leaf with key list K overflow, the split    *)
(* uses mid = len(K) // 2: the old leaf keeps K[:mid] and the matching     *)
(* values, the new leaf receives K[mid:] and the matching values, the key  *)
(* promoted into the internal nodes equals the new leaf's first key and    *)
(* stays in the new leaf, the new leaf's next_leaf is the old leaf's old   *)
(* next_leaf, the old leaf's next_leaf is the new leaf, and no entry is    *)
(* lost or duplicated.                                                     *)
(***************************************************************************)
InsertStep == result'.op = "insert" /\ nops' = nops + 1

\* the keys of all internal nodes ever created, as a list
InternalKeys(ns) ==
    Concat([n \in 1 .. Len(ns) |-> IF ns[n].is_leaf THEN <<>> ELSE ns[n].keys])

LeafSplitAsSpecified ==
    LET leaf == FindLeaf(nodes, root, result'.key)
        full == InsertIntoLeaf(nodes, leaf, result'.key, result'.value)[leaf]
        K == full.keys
        V == full.values
        mid == Len(K) \div 2
        right == Len(nodes) + 1
    IN  Len(K) >= order =>
           /\ Len(nodes') >= right
           /\ nodes'[right].is_leaf
           /\ nodes'[leaf].keys = SubSeq(K, 1, mid)
           /\ nodes'[leaf].values = SubSeq(V, 1, mid)
           /\ nodes'[right].keys = SubSeq(K, mid + 1, Len(K))
           /\ nodes'[right].values = SubSeq(V, mid + 1, Len(V))
           /\ nodes'[right].next_leaf = nodes[leaf].next_leaf
           /\ nodes'[leaf].next_leaf = right
           /\ BagOf(InternalKeys(nodes')) =
                  BagOf(InternalKeys(nodes) \o <<nodes'[right].keys[1]>>)
           /\ \A n \in (1 .. Len(nodes)) \ {leaf} :
                  nodes[n].is_leaf => nodes'[n] = nodes[n]
           /\ \A n \in (right + 1) .. Len(nodes') : ~nodes'[n].is_leaf
           /\ BagOf(StoredEntries(TreeP)) =
                  BagOf(StoredEntries(Tree) \o <<<<result'.key, result'.value>>>>)

Thm_C22 == [][InsertStep => LeafSplitAsSpecified]_vars

\* an insert has split a leaf that had a successor in the chain, below an internal node
Witness_C22 ==
    /\ result.op = "insert"
    /\ result.created = 1
    /\ nodes[Len(nodes)].is_leaf
    /\ nodes[Len(nodes)].next_leaf # None
    /\ Len(nodes[Len(nodes)].keys) >= 2

(***************************************************************************)
(* C23. When an internal node with keys K and children C overflows, the    *)
(* split uses mid = len(K) // 2: K[mid] is promoted and is in neither      *)
(* resulting node, the left node keeps K[:mid] and C[:mid+1], the right    *)
(* node gets K[mid+1:] and C[mid+1:], every child of the old node is a     *)
(* child of exactly one of the two, and the right node is inserted in the  *)
(* parent immediately after the left node.                                 *)
(***************************************************************************)
\* a root split ends the call by constructing the new root
NewRoot == IF root' # root THEN {root'} ELSE {}

\* the right nodes of the internal splits of the step
NewInternals == {r \in (Len(nodes) + 1) .. Len(nodes') : ~nodes'[r].is_leaf} \ NewRoot

Without(cs, c) == SelectSeq(cs, LAMBDA x : x # c)

\* the node whose split made r: its children and r's are its former children and the
\* node constructed just before r, which is the child that made it overflow
IsLeftOf(L, r) ==
    /\ ~nodes[L].is_leaf
    /\ Without(nodes'[L].children \o nodes'[r].children, r - 1) = nodes[L].children
    /\ Count(nodes'[L].children \o nodes'[r].children, r - 1) = 1

LeftOf(r) == CHOOSE L \in 1 .. Len(nodes) : IsLeftOf(L, r)

SplitAtMid(L, r) ==
    \E pk \in Range(InternalKeys(nodes')) :
       LET K == nodes'[L].keys \o <<pk>> \o nodes'[r].keys
           mid == Len(K) \div 2
       IN  /\ \E idx \in 0 .. Len(K) - 1 : ListPop(K, idx) = nodes[L].keys
           /\ Len(K) >= order
           /\ Len(nodes'[L].keys) = mid
           /\ Len(nodes'[L].children) = mid + 1
           /\ Len(nodes'[r].children) = Len(nodes'[r].keys) + 1

\* the children of the parent once the right node r has been inserted in it: when the
\* parent overflowed in turn, they are divided between it and the node made after r
ParentChildren(r) ==
    IF r + 1 \in NewInternals
    THEN nodes'[LeftOf(r + 1)].children \o nodes'[r + 1].children
    ELSE LET P == CHOOSE q \in 1 .. Len(nodes') :
                      ~nodes'[q].is_leaf /\ r \in Range(nodes'[q].children)
         IN  nodes'[P].children

RightAfterLeft(L, r) ==
    LET cs == ParentChildren(r)
    IN  \E i \in 1 .. Len(cs) - 1 : cs[i] = L /\ cs[i + 1] = r

PromotedKeyKept ==
    Len(nodes') > Len(nodes) =>
       BagOf(InternalKeys(nodes')) =
          BagOf(InternalKeys(nodes) \o <<nodes'[Len(nodes) + 1].keys[1]>>)

InternalSplitParts ==
    /\ PromotedKeyKept
    /\ \A r \in NewInternals :
           /\ \E L \in 1 .. Len(nodes) : IsLeftOf(L, r)
           /\ SplitAtMid(LeftOf(r), r)

Claim_C23 ==
    [][InsertStep => /\ InternalSplitParts
                     /\ \A r \in NewInternals : RightAfterLeft(LeftOf(r), r)]_vars

\* C23 without the position of the right node in the parent
InternalSplitPartsAsClaimed == [][InsertStep => InternalSplitParts]_vars

\* C23 while insert was never given a key that had an entry in the tree
RightAfterLeftWithoutDuplicates ==
    [][(InsertStep /\ ~dup_seen') =>
          \A r \in NewInternals : RightAfterLeft(LeftOf(r), r)]_vars

\* an insert has split an internal node below the root without duplicates
InternalSplitBelowRoot ==
    /\ result.op = "insert"
    /\ result.created = 2
    /\ ~nodes[Len(nodes)].is_leaf
    /\ ~dup_seen

(***************************************************************************)
(* C24. A split of the root (leaf or internal) replaces the root by a new  *)
(* internal node with exactly one key and exactly two children, the two    *)
(* halves of the old root, and increases the height by exactly one; no     *)
(* other operation changes the height; after any sequence of inserts and   *)
(* deletes all leaves are at the same depth.                               *)
(***************************************************************************)
\* the depths of the leaves below n, n being at depth d
RECURSIVE LeafDepths(_, _, _)
LeafDepths(ns, n, d) ==
    IF ns[n].is_leaf THEN {d}
    ELSE UNION {LeafDepths(ns, ns[n].children[i], d + 1) : i \in 1 .. Len(ns[n].children)}

MaxOf(S) == CHOOSE x \in S : \A y \in S : y <= x
Height(T) == MaxOf(LeafDepths(T.nodes, T.root, 1))

LeavesAtOneDepth == Cardinality(LeafDepths(nodes, root, 1)) = 1

\* the call splits the root: a leaf root that insert fills up to order keys, or an
\* internal root that is the left node of one of the step's internal splits
RootSplits ==
    \/ /\ InsertStep
       /\ nodes[root].is_leaf
       /\ Len(nodes[root].keys) + 1 >= order
    \/ /\ InsertStep
       /\ \E r \in NewInternals : IsLeftOf(root, r)

RootSplitAsSpecified ==
    RootSplits =>
       /\ root' # root
       /\ root' = Len(nodes')
       /\ ~nodes'[root'].is_leaf
       /\ Len(nodes'[root'].keys) = 1
       /\ nodes'[root'].children = <<root, Len(nodes') - 1>>
       /\ Len(nodes') - 1 > Len(nodes)
       /\ nodes'[Len(nodes') - 1].is_leaf = nodes[root].is_leaf
       /\ Height(TreeP) = Height(Tree) + 1

HeightOtherwiseKept ==
    ~RootSplits => (root' = root /\ Height(TreeP) = Height(Tree))

Thm_C24 == []LeavesAtOneDepth /\ [][RootSplitAsSpecified /\ HeightOtherwiseKept]_vars

\* an insert has split an internal root
Witness_C24 ==
    /\ result.op = "insert"
    /\ result.created >= 3
    /\ root = Len(nodes)
    /\ ~nodes[nodes[root].children[1]].is_leaf
    /\ Len(nodes[root].keys) = 1

\* an insert has split a leaf root
Witness_C24_leaf ==
    /\ result.op = "insert"
    /\ result.created = 2
    /\ root = Len(nodes)
    /\ nodes[nodes[root].children[1]].is_leaf

(***************************************************************************)
(* C25. After any sequence of inserts and deletes, for every internal node *)
(* and every index i, every key stored in the subtree children[i] is       *)
(* < keys[i] and every key stored in the subtree children[i+1] is          *)
(* >= keys[i]; hence the leaf reached by _find_leaf(k) is the only leaf    *)
(* that can contain k.                                                     *)
(***************************************************************************)
\* the keys held by the nodes of the subtree of n
KeysUnder(ns, n) == UNION {Range(ns[m].keys) : m \in NodesUnder(ns, n)}

SeparatorsBound ==
    \A n \in InternalNodes :
       \A i \in 1 .. Len(nodes[n].keys) :
          /\ i <= Len(nodes[n].children) =>
                 \A k \in KeysUnder(nodes, nodes[n].children[i]) :
                    BytesLt(k, nodes[n].keys[i])
          /\ i + 1 <= Len(nodes[n].children) =>
                 \A k \in KeysUnder(nodes, nodes[n].children[i + 1]) :
                    BytesLe(nodes[n].keys[i], k)

OnlyTheFoundLeafHolds ==
    \A n \in NodesUnder(nodes, root) :
       nodes[n].is_leaf =>
          \A i \in 1 .. Len(nodes[n].keys) :
             FindLeaf(nodes, root, nodes[n].keys[i]) = n

Claim_C25 == SeparatorsBound /\ OnlyTheFoundLeafHolds

\* C25 while insert was never given a key that had an entry in the tree
SeparatorsBoundWithoutDuplicates == ~dup_seen => Claim_C25

(***************************************************************************)
(* C26. For the node-id based BPlusTree, after any sequence of inserts     *)
(* with distinct keys, search(k) returns the value inserted for k for      *)
(* every inserted key k (also one a split promoted into an internal node)  *)
(* and None for every other key: the descent at each internal node takes   *)
(* the first child index i with k < keys[i], or the last child if k is >=  *)
(* all keys.                                                               *)
(***************************************************************************)
BPProbeKeys == {BPSerializeKey(k) : k \in 0 .. 4}

OnlyDistinctInserts == ~bp_repeated /\ ~bp_deleted

\* the first 0-based index i with key < keys[i], len(keys) if there is none
RECURSIVE FirstGreater(_, _, _)
FirstGreater(keys, key, i) ==
    IF i >= Len(keys) \/ BytesLt(key, keys[i + 1]) THEN i
    ELSE FirstGreater(keys, key, i + 1)

BPInternalIds == {i \in DOMAIN node_cache : node_cache[i].node_type = INTERNAL_NODE}
BPLeafIds == {i \in DOMAIN node_cache : node_cache[i].node_type = LEAF_NODE}

DescentAsSpecified ==
    \A i \in BPInternalIds : \A k \in BPProbeKeys :
       GetChildForKey(node_cache[i], k) =
          node_cache[i].children[FirstGreater(node_cache[i].keys, k, 0) + 1]

SearchFinds(ks) ==
    \A k \in ks :
       BPSearchTree(BTree, k) = IF k \in DOMAIN bp_inserted THEN bp_inserted[k] ELSE Absent

Claim_C26 == OnlyDistinctInserts => (SearchFinds(BPProbeKeys) /\ DescentAsSpecified)

\* C26 for the keys that no internal node holds
BPPromotedKeys == UNION {Range(node_cache[i].keys) : i \in BPInternalIds}
SearchFindsUnpromotedKeys == OnlyDistinctInserts => SearchFinds(BPProbeKeys \ BPPromotedKeys)

(***************************************************************************)
(* C27. For the node-id based BPlusTree, after any sequence of inserts     *)
(* every leaf's next_leaf is None or the id of a leaf present in           *)
(* node_cache, following next_leaf from the leftmost leaf visits every     *)
(* leaf in ascending key order, and range_search(start, end) completes     *)
(* without error and yields every stored value whose key lies in           *)
(* [start, end).                                                           *)
(***************************************************************************)
LinksValid ==
    \A i \in BPLeafIds :
       node_cache[i].next_leaf = Absent \/ node_cache[i].next_leaf \in BPLeafIds

RECURSIVE BPLeftmost(_, _)
BPLeftmost(cache, i) ==
    IF cache[i].node_type = LEAF_NODE THEN i ELSE BPLeftmost(cache, cache[i].children[1])

\* the leaves visited by following next_leaf while it names a cached node
RECURSIVE BPChain(_, _, _)
BPChain(cache, i, fuel) ==
    IF i \notin DOMAIN cache \/ fuel = 0 THEN <<>>
    ELSE <<i>> \o BPChain(cache, cache[i].next_leaf, fuel - 1)

BPLeafChain == BPChain(node_cache, BPLeftmost(node_cache, root_node_id), next_node_id)

ChainVisitsLeavesInOrder ==
    /\ Range(BPLeafChain) = BPLeafIds
    /\ Len(BPLeafChain) = Cardinality(BPLeafIds)
    /\ NonDecreasing(Concat([j \in 1 .. Len(BPLeafChain) |-> node_cache[BPLeafChain[j]].keys]))

\* the values stored with the keys in [start_bytes, end_bytes), as a bag
BPStoredInRange(cache, start_bytes, end_bytes) ==
    LET es == Concat([i \in 1 .. Cardinality(DOMAIN cache) |->
                        LET n == cache[i - 1]
                        IN  IF n.node_type = LEAF_NODE
                            THEN [j \in 1 .. Len(n.keys) |-> <<n.keys[j], n.children[j]>>]
                            ELSE <<>>])
        keep == {j \in DOMAIN es : BytesLe(start_bytes, es[j][1]) /\ BytesLt(es[j][1], end_bytes)}
    IN  [v \in {es[j][2] : j \in keep} |-> Cardinality({j \in keep : es[j][2] = v})]

RangeSearchCompletes ==
    (bres'.op = "range_search" /\ bcalls' = bcalls + 1 /\ ~bp_deleted) =>
       /\ bres'.err = ""
       /\ BagOf(bres'.list) = BPStoredInRange(node_cache, bres'.key, bres'.key2)

Claim_C27 ==
    /\ [](~bp_deleted => (LinksValid /\ ChainVisitsLeavesInOrder))
    /\ [][RangeSearchCompletes]_vars

\* C27 while no leaf has been split
C27BeforeFirstSplit ==
    /\ []((~bp_deleted /\ next_node_id = 1) => (LinksValid /\ ChainVisitsLeavesInOrder))
    /\ [][next_node_id = 1 => RangeSearchCompletes]_vars

(***************************************************************************)
(* C28. For QueryExecutor, after any sequence of successful CREATE_TABLE,  *)
(* INSERT, UPDATE and DELETE statements on a table with a primary key, the *)
(* index pk_<table> of the executor's IndexManager holds exactly one entry *)
(* per row currently stored in the table, keyed by the row's current       *)
(* primary-key value and mapping to its row_id; the rows DELETE removed    *)
(* have no entry left in the index.                                        *)
(***************************************************************************)
KeyedTables == {n \in DOMAIN tables : tables[n].primary_key # <<>>}

\* the <<key, row_id>> entries the rows of the table call for
RowEntries(schema, rows) ==
    [i \in DOMAIN rows |-> <<RowKey(schema, schema.primary_key, rows[i].values),
                             rows[i].row_id>>]

IndexEntries(ixs, index_name) == StoredEntries(TreeOf(ixs[index_name]))

Claim_C28 ==
    \A n \in KeyedTables :
       /\ PkName(n) \in DOMAIN index_manager
       /\ BagOf(IndexEntries(index_manager, PkName(n))) =
             BagOf(RowEntries(tables[n], table_data[n]))

\* C28 for CREATE_TABLE and INSERT: the new table's index is empty, and the index gains
\* exactly the entry of the row INSERT stored
CreateAndInsertIndexed ==
    /\ (qres'.op = "CREATE_TABLE" /\ qres'.success /\ qres'.table_name \in KeyedTables') =>
          IndexEntries(index_manager', PkName(qres'.table_name)) = <<>>
    /\ (qres'.op = "INSERT" /\ qres'.success /\ qres'.table_name \in KeyedTables) =>
          LET n == qres'.table_name
              row == table_data'[n][Len(table_data'[n])]
          IN  /\ table_data'[n] = Append(table_data[n], row)
              /\ BagOf(IndexEntries(index_manager', PkName(n))) =
                    BagOf(Append(IndexEntries(index_manager, PkName(n)),
                                 <<RowKey(tables[n], tables[n].primary_key, row.values),
                                   row.row_id>>))

IndexFollowsCreateAndInsert == [][CreateAndInsertIndexed]_vars

(***************************************************************************)
(* C29. No sequence of write_page and allocate_page calls on an open       *)
(* StorageManager, with pages of any page_id >= 0, alters the magic number *)
(* or the page_size stored in slot 0 of the file, and the header's db_size *)
(* changes only through an extension: after such a sequence and close(),   *)
(* open() on the same file succeeds and reports the db_size the manager    *)
(* had before closing.                                                     *)
(***************************************************************************)
\* what open() would read from slot 0 of the file at db_path
HeaderOnDisk ==
    IF disk.exists /\ Len(disk.blocks) >= 1 THEN HeaderDeserialize(disk.blocks[1], PAGE_SIZE)
    ELSE [ok |-> FALSE, header |-> NewHeader]

\* the manager is open on the file at db_path, and close() followed by open() would
\* succeed and report the manager's db_size
ReopensWithSameSize ==
    /\ is_open /\ file /\ ~orphan.held
    /\ HeaderOnDisk.ok
    /\ HeaderOnDisk.header.magic = MAGIC_NUMBER
    /\ HeaderOnDisk.header.page_size = PAGE_SIZE
    /\ HeaderOnDisk.header.db_size = header.db_size

WriteOrAllocate == sres'.op \in {"write_page", "allocate_page"} /\ ncalls' = ncalls + 1

WritesKeepHeader == (ReopensWithSameSize /\ WriteOrAllocate) => ReopensWithSameSize'

Claim_C29 == [][WritesKeepHeader]_vars

\* C29 for the pages of every slot but slot 0
WritesPastSlot0KeepHeader == [][sres'.page_id # 0 => WritesKeepHeader]_vars

(***************************************************************************)
(* C30. On an open StorageManager, read_page(i) fails with an              *)
(* out-of-bounds error exactly when i >= db_size, and for every i with     *)
(* 0 <= i < db_size it returns a Page whose page_id field equals i, after  *)
(* any sequence of create_database, open, write_page and allocate_page     *)
(* calls; read_page never changes db_size or the file.                     *)
(***************************************************************************)
ReadStep == sres'.op = "read_page" /\ ncalls' = ncalls + 1

ReadAsSpecified ==
    (ReadStep /\ is_open) =>
       /\ (sres'.err = "OutOfBounds") <=> (sres'.page_id >= header.db_size)
       /\ sres'.page_id \in 0 .. header.db_size - 1 =>
             /\ sres'.err = ""
             /\ sres'.page.page_id = sres'.page_id

ReadChangesNothing == ReadStep => UNCHANGED <<header, disk, orphan, file, is_open>>

Claim_C30 == [][ReadAsSpecified /\ ReadChangesNothing]_vars

\* C30 for the pages of every slot but slot 0
ReadsPastSlot0AsSpecified == [][(sres'.page_id # 0 => ReadAsSpecified) /\ ReadChangesNothing]_vars

====
